---- MODULE Spec2Model ----
(***************************************************************************)
(* A model of the key-value server: the concurrent data store with lazy    *)
(* expiry (db/data_store.rs), the SET and GET handlers (commands/set.rs,   *)
(* commands/get.rs), the command registry (commands/command.rs), the       *)
(* per-connection loop (main.rs) and the worker pool                       *)
(* (utils/thread_pool.rs).                                                 *)
(*                                                                         *)
(* Strings are sequences of one-character strings, so that parsing a       *)
(* number, upper-casing a name and comparing option names are computed.    *)
(* Time is the monotonic clock in milliseconds.  The integer widths are    *)
(* scaled from 64 to 20 bits (U64_MAX, I64_MAX) so that every sum stays    *)
(* inside 32-bit integers; the arithmetic keeps the shape of the source:   *)
(* u64 parsing overflows above U64_MAX, adding a duration to an instant    *)
(* overflows above I64_MAX seconds, unsigned subtraction wraps or aborts.  *)
(***************************************************************************)
EXTENDS Integers, Sequences, FiniteSets, TLC

----------------------------------------------------------------------------
(* Bounds of the model *)

\* number of worker threads of the pool (args.threads)
NumWorkers == 2
\* requests the workers receive in the store-level specification
MaxRequests == 3
\* the last instant the monotonic clock reaches
MaxNow == 1
\* client connections in the server-level specification
NumConns == 3
\* requests the clients send in the server-level specification
MaxSends == 3
\* elements of an array handed to the codec
MaxElems == 2
\* client connections while the server starts and follows a master
NumMainConns == 1

Workers == 1..NumWorkers

----------------------------------------------------------------------------
(* Integer widths, scaled *)

U64_MAX == (2^20) - 1
I64_MAX == (2^19) - 1
MillisPerSec == 1000

----------------------------------------------------------------------------
(* Strings *)

LowerChars == <<"a","b","c","d","e","f","g","h","i","j","k","l","m",
                "n","o","p","q","r","s","t","u","v","w","x","y","z">>
UpperChars == <<"A","B","C","D","E","F","G","H","I","J","K","L","M",
                "N","O","P","Q","R","S","T","U","V","W","X","Y","Z">>
DigitChars == <<"0","1","2","3","4","5","6","7","8","9">>

\* char::to_uppercase on the characters the requests use
to_uppercase_char(c) ==
    IF \E i \in 1..26 : LowerChars[i] = c
    THEN UpperChars[CHOOSE i \in 1..26 : LowerChars[i] = c]
    ELSE c

\* str::to_uppercase
to_uppercase(s) == [i \in 1..Len(s) |-> to_uppercase_char(s[i])]

IsDigit(c) == \E i \in 1..10 : DigitChars[i] = c
DigitValue(c) == (CHOOSE i \in 1..10 : DigitChars[i] = c) - 1

ParseError == -1

\* the digit loop of u64::from_str_radix(_, 10): checked multiply and add
RECURSIVE ParseDigits(_, _)
ParseDigits(s, acc) ==
    IF s = <<>> THEN acc
    ELSE IF ~IsDigit(Head(s)) THEN ParseError
    ELSE IF acc * 10 + DigitValue(Head(s)) > U64_MAX THEN ParseError
    ELSE ParseDigits(Tail(s), acc * 10 + DigitValue(Head(s)))

\* u64::from_str_radix(val, 10): empty string, a lone sign, a minus sign, a
\* non-digit and an overflow are errors; one leading "+" is accepted
u64_from_str_radix(s) ==
    IF s = <<>> THEN ParseError
    ELSE IF Head(s) = "+"
         THEN (IF Tail(s) = <<>> THEN ParseError ELSE ParseDigits(Tail(s), 0))
         ELSE ParseDigits(s, 0)

----------------------------------------------------------------------------
(* RESP messages (RedisMessageType) *)

SimpleString(s) == [type |-> "SimpleString", data |-> s]
BulkString(s) == [type |-> "BulkString", data |-> s]
Integer(n) == [type |-> "Integer", data |-> n]
Array(xs) == [type |-> "Array", data |-> xs]
NullBulkString == [type |-> "NullBulkString"]
\* the text of an error reply is kept as one opaque string
Error(text) == [type |-> "Error", data |-> text]

None == [some |-> FALSE]
Some(x) == [some |-> TRUE, val |-> x]

\* RedisMessageType::as_string: the text of a string-like message
as_string(m) ==
    IF m.type \in {"BulkString", "SimpleString"} THEN Some(m.data) ELSE None

S_OK == <<"O","K">>
S_PONG == <<"P","O","N","G">>
S_PING == <<"P","I","N","G">>
S_ECHO == <<"E","C","H","O">>
S_GET == <<"G","E","T">>
S_SET == <<"S","E","T">>
S_CONFIG == <<"C","O","N","F","I","G">>
S_KEYS == <<"K","E","Y","S">>
S_INFO == <<"I","N","F","O">>
S_REPLCONF == <<"R","E","P","L","C","O","N","F">>
S_PSYNC == <<"P","S","Y","N","C">>
S_NX == <<"N","X">>
S_XX == <<"X","X">>
S_EX == <<"E","X">>
S_PX == <<"P","X">>
S_EXAT == <<"E","X","A","T">>
S_PXAT == <<"P","X","A","T">>
S_KEEPTTL == <<"K","E","E","P","T","T","L">>
S_IFEQ == <<"I","F","E","Q">>
S_IFNE == <<"I","F","N","E">>
S_IFDEQ == <<"I","F","D","E","Q">>
S_IFDNE == <<"I","F","D","N","E">>

----------------------------------------------------------------------------
(* The data store: DataUnit, Expiry *)

NoDeadline == -1

\* DataUnit { value, expiry_deadline }; id is the position of the set that
\* wrote the entry in the order in which the map serialised the sets
DataUnit(value, expiry_deadline, id) ==
    [value |-> value, expiry_deadline |-> expiry_deadline, id |-> id]

\* Instant::checked_add(ttl): None (here NoDeadline) when the seconds overflow
checked_add(instant, ttl) ==
    IF (instant + ttl) \div MillisPerSec > I64_MAX THEN NoDeadline
    ELSE instant + ttl

\* Expiry::Ttl(ttl).get_expiry_deadline(): now.checked_add(ttl).unwrap_or(now)
get_expiry_deadline(ttl, instantNow) ==
    IF checked_add(instantNow, ttl) = NoDeadline THEN instantNow
    ELSE checked_add(instantNow, ttl)

\* DataUnit::new(value, ttl): ttl is None or Some(duration in milliseconds)
DataUnit_new(value, ttl, instantNow, id) ==
    DataUnit(value,
             IF ttl.some THEN get_expiry_deadline(ttl.val, instantNow) ELSE NoDeadline,
             id)

\* a variant of is_expired that still counts the deadline instant itself as live
is_expired_after_deadline(unit, instantNow) ==
    IF unit.expiry_deadline # NoDeadline
    THEN instantNow > unit.expiry_deadline
    ELSE FALSE

\* a variant of is_expired for which no deadline ever passes
is_expired_never(unit, instantNow) == FALSE

\* a variant of is_expired that is true at the deadline instant only
is_expired_at_deadline(unit, instantNow) ==
    IF unit.expiry_deadline # NoDeadline
    THEN instantNow = unit.expiry_deadline
    ELSE FALSE

\* DataUnit::is_expired, evaluated when the clock reads instantNow
is_expired(unit, instantNow) ==
    IF unit.expiry_deadline # NoDeadline
    THEN instantNow >= unit.expiry_deadline
    ELSE FALSE

\* DashMap::remove(&key)
remove_key(map, key) == [x \in (DOMAIN map) \ {key} |-> map[x]]

\* DataStore::set: entry(key).and_modify(swap).or_insert_with(value)
set(map, key, unit) ==
    [x \in (DOMAIN map) \cup {key} |-> IF x = key THEN unit ELSE map[x]]

----------------------------------------------------------------------------
(* SET: options (commands/set.rs) *)

\* one parsed option: the variant and, for an expiry option, its Duration in ms
SetArgument(name, dur) == [name |-> name, dur |-> dur]

\* SetArguments::decode: exact (case-sensitive) match of the option name
SetArguments_decode(s) ==
    IF s = S_NX THEN Some(SetArgument("NX", 0))
    ELSE IF s = S_XX THEN Some(SetArgument("XX", 0))
    ELSE IF s = S_IFEQ THEN Some(SetArgument("IFEQ", 0))
    ELSE IF s = S_IFNE THEN Some(SetArgument("IFNE", 0))
    ELSE IF s = S_IFDEQ THEN Some(SetArgument("IFDEQ", 0))
    ELSE IF s = S_IFDNE THEN Some(SetArgument("IFDNE", 0))
    ELSE IF s = S_GET THEN Some(SetArgument("GET", 0))
    ELSE IF s = S_EX THEN Some(SetArgument("EX", 0))
    ELSE IF s = S_PX THEN Some(SetArgument("PX", 0))
    ELSE IF s = S_EXAT THEN Some(SetArgument("EXAT", 0))
    ELSE IF s = S_PXAT THEN Some(SetArgument("PXAT", 0))
    ELSE IF s = S_KEEPTTL THEN Some(SetArgument("KEEPTTL", 0))
    ELSE None

is_expiry_argument(a) == a.name \in {"KEEPTTL", "EX", "PX", "EXAT", "PXAT"}
\* a variant of is_set_logic_argument that does not know XX
is_set_logic_argument_nx_only(a) == a.name = "NX"
is_set_logic_argument(a) == a.name \in {"NX", "XX"}
is_get_logic_argument(a) == a.name = "GET"

\* parse_expiry: Some(number), or the error reply; the texts stand for the
\* formatted messages, which also quote the offending argument
parse_expiry(buffer, i) ==
    IF i > Len(buffer) THEN [some |-> FALSE, error |-> Error("invalid")]
    ELSE IF buffer[i].type # "BulkString"
         THEN [some |-> FALSE,
               error |-> Error("SET with expiry argument expects a Bulk String numeric value argument! Argument is of type")]
    ELSE IF u64_from_str_radix(buffer[i].data) = ParseError
         THEN [some |-> FALSE,
               error |-> Error("SET with expiry argument expects a Bulk String numeric value argument. Not")]
    ELSE Some(u64_from_str_radix(buffer[i].data))

\* the wall clock (SystemTime::now since UNIX_EPOCH, in ms) when the
\* monotonic clock reads instantNow; the server started at BootUnixMillis
BootUnixMillis == 500 * MillisPerSec
unix_now_millis(instantNow) == BootUnixMillis + instantNow

\* u64 subtraction a - b: with overflow checks an underflow aborts the
\* thread (Underflow), without them the result wraps modulo 2^w
Underflow == -1
u64_sub(a, b, overflow_checks) ==
    IF a >= b THEN a - b
    ELSE IF overflow_checks THEN Underflow
    ELSE (a - b) + (U64_MAX + 1)

\* expiry_from_unix_secs: Duration::from_secs(unix_secs - now.as_secs())
expiry_from_unix_secs(unix_secs, instantNow, overflow_checks) ==
    LET delta == u64_sub(unix_secs, unix_now_millis(instantNow) \div MillisPerSec,
                         overflow_checks)
    IN  IF delta = Underflow THEN Underflow ELSE delta * MillisPerSec

\* expiry_from_unix_millis: Duration::from_millis(unix_millis - now.as_millis())
expiry_from_unix_millis(unix_millis, instantNow, overflow_checks) ==
    u64_sub(unix_millis, unix_now_millis(instantNow) % (U64_MAX + 1), overflow_checks)

ParseOk(arguments) == [kind |-> "ok", arguments |-> arguments]
ParseErr(text) == [kind |-> "err", error |-> Error(text)]
ParsePanic == [kind |-> "panic"]

\* parse_arguments, lines 200-206: the Duration of an expiry option
expiry_duration(name, expiry_value, instantNow, overflow_checks) ==
    CASE name = "EX" -> expiry_value * MillisPerSec
      [] name = "PX" -> expiry_value
      [] name = "EXAT" -> expiry_from_unix_secs(expiry_value, instantNow, overflow_checks)
      [] name = "PXAT" -> expiry_from_unix_millis(expiry_value, instantNow, overflow_checks)
      [] OTHER -> 0

\* the loop of parse_arguments over arg_buffer from index i on
RECURSIVE parse_loop(_, _, _, _, _)

\* parse_arguments, lines 197-211: an expiry option takes the next element
\* as its number
parse_expiry_argument(buffer, i, arguments, name, expiry_value, instantNow, overflow_checks) ==
    IF ~expiry_value.some
    THEN [kind |-> "err", error |-> expiry_value.error]
    ELSE IF expiry_duration(name, expiry_value.val, instantNow, overflow_checks)
            = Underflow
    THEN ParsePanic
    ELSE parse_loop(buffer, i + 2,
                    Append(arguments,
                           SetArgument(name,
                                       expiry_duration(name, expiry_value.val,
                                                       instantNow, overflow_checks))),
                    instantNow, overflow_checks)

\* parse_arguments, lines 196-211: one decoded option
parse_argument(buffer, i, arguments, argument, instantNow, overflow_checks) ==
    IF is_expiry_argument(argument)
    THEN parse_expiry_argument(buffer, i, arguments, argument.name,
                               parse_expiry(buffer, i + 1), instantNow,
                               overflow_checks)
    ELSE parse_loop(buffer, i + 1, Append(arguments, argument),
                    instantNow, overflow_checks)

parse_loop(buffer, i, arguments, instantNow, overflow_checks) ==
    IF i > Len(buffer) THEN ParseOk(arguments)
    ELSE IF buffer[i].type # "BulkString"
         THEN ParseErr("Expected to recieve a BulkString type argument")
    ELSE IF ~SetArguments_decode(buffer[i].data).some
         THEN ParseErr("Unknown Set command argument")
    ELSE parse_argument(buffer, i, arguments, SetArguments_decode(buffer[i].data).val,
                        instantNow, overflow_checks)

\* parse_arguments, lines 213-228: the loop over the parsed options; the
\* first repeated kind of option decides the error
RECURSIVE check_loop(_, _, _, _)
check_loop(arguments, i, expiry_argument_present, set_logic_present) ==
    IF i > Len(arguments) THEN ParseOk(arguments)
    ELSE IF is_expiry_argument(arguments[i]) /\ expiry_argument_present
         THEN ParseErr("Invalid SET command. Recieved multiple expiry arguments")
    ELSE IF is_set_logic_argument(arguments[i]) /\ set_logic_present
         THEN ParseErr("Invalid SET command. Recieved both NX and XX")
    ELSE check_loop(arguments, i + 1,
                    expiry_argument_present \/ is_expiry_argument(arguments[i]),
                    set_logic_present \/ is_set_logic_argument(arguments[i]))

\* parse_arguments, lines 213-230: the check for more than one expiry
\* option and more than one of NX / XX
check_arguments(parsed) ==
    IF parsed.kind # "ok" THEN parsed
    ELSE check_loop(parsed.arguments, 1, FALSE, FALSE)

\* parse_arguments(args): the options after key and value, then the checks
parse_arguments(args, instantNow, overflow_checks) ==
    check_arguments(parse_loop(SubSeq(args, 3, Len(args)), 1, <<>>,
                               instantNow, overflow_checks))

\* arguments.iter().find(pred): the first option that satisfies pred
FindFirst(arguments, Pred(_)) ==
    IF \E i \in 1..Len(arguments) : Pred(arguments[i])
    THEN Some(arguments[CHOOSE i \in 1..Len(arguments) :
                  /\ Pred(arguments[i])
                  /\ \A j \in 1..(i - 1) : ~Pred(arguments[j])])
    ELSE None

\* SetCommand::execute up to the read of the old value: the checks of key
\* and value; None when they pass
set_check_key_value(args) ==
    IF Len(args) < 1 THEN Some(Error("SET expects an key argument!"))
    ELSE IF Len(args) < 2 THEN Some(Error("SET expects an value argument!"))
    ELSE IF ~as_string(args[1]).some
         THEN Some(Error("SET expects a Stringable key argument!"))
    ELSE IF ~as_string(args[2]).some
         THEN Some(Error("SET expects a Stringable value argument!"))
    ELSE None

\* SetCommand::execute, lines 76-122, on the options parse_arguments gave:
\* the expiry, the gate, the write of the new DataUnit and the reply
set_decide(expiry_arg, set_logic_argument, return_value_argument, save_value, old_value, instantNow, id) ==
    IF expiry_arg.some /\ expiry_arg.val.name = "KEEPTTL"
    THEN [kind |-> "panic"]
    ELSE IF set_logic_argument.some /\ set_logic_argument.val.name = "NX"
            /\ old_value.some
    THEN [kind |-> "reply", write |-> None,
          response |-> Error("Not setting value due to 'NX' argument and exsisting value.")]
    ELSE IF set_logic_argument.some /\ set_logic_argument.val.name = "XX"
            /\ ~old_value.some
    THEN [kind |-> "reply", write |-> None,
          response |-> Error("Not setting value due to 'XX' argument and non exsisting value.")]
    ELSE [kind |-> "reply",
          write |-> Some(DataUnit_new(save_value,
                                      IF expiry_arg.some THEN Some(expiry_arg.val.dur)
                                      ELSE None,
                                      instantNow, id)),
          expiry |-> IF expiry_arg.some THEN Some(expiry_arg.val.dur) ELSE None,
          response |-> IF return_value_argument /\ old_value.some
                       THEN SimpleString(old_value.val.value)
                       ELSE SimpleString(S_OK)]

\* SetCommand::execute, lines 71-74: the result of parse_arguments
set_after_parse(parsed, save_value, old_value, instantNow, id) ==
    IF parsed.kind = "panic" THEN [kind |-> "panic"]
    ELSE IF parsed.kind = "err" THEN [kind |-> "reply", write |-> None,
                                      response |-> parsed.error]
    ELSE set_decide(FindFirst(parsed.arguments, is_expiry_argument),
                    FindFirst(parsed.arguments, is_set_logic_argument),
                    FindFirst(parsed.arguments, is_get_logic_argument).some,
                    save_value, old_value, instantNow, id)

\* SetCommand::execute after get_db().get(&key) returned old_value: the
\* outcome is a panic, an error reply without a write, or a write of the
\* new DataUnit followed by the reply
set_execute(args, old_value, instantNow, overflow_checks, id) ==
    set_after_parse(parse_arguments(args, instantNow, overflow_checks),
                    as_string(args[2]).val, old_value, instantNow, id)

----------------------------------------------------------------------------
(* GET (commands/get.rs) *)

\* GetCommand::new: the key, or the error reply
GetCommand_new(args) ==
    IF Len(args) < 1 THEN [ok |-> FALSE, error |-> Error("GET expects an argument!")]
    ELSE IF ~as_string(args[1]).some
         THEN [ok |-> FALSE, error |-> Error("GET expects a Stringable key argument!")]
    ELSE [ok |-> TRUE, key |-> as_string(args[1]).val]

\* GetCommand::execute on the result of DB.get(&self.key)
GetCommand_execute(found) ==
    IF found.some THEN BulkString(found.val.value) ELSE NullBulkString

----------------------------------------------------------------------------
(* The other handlers (commands/ping.rs, echo.rs, config.rs, replconf.rs,  *)
(* psync.rs, info.rs, keys.rs): parse, then execute                        *)

Reply(m) == [kind |-> "reply", response |-> m]
Panic == [kind |-> "panic"]

\* ArgErrorMessageGenerator::arg_count_error
arg_count_error == Error("ERR wrong number of arguments for command")

\* RedisMessageType::bulk_string_value: the text of a bulk string, or an error
bulk_string_value(m) ==
    IF m.type = "BulkString" THEN Some(m.data) ELSE None

S_HELP == <<"H","E","L","P">>
S_REWRITE == <<"R","E","W","R","I","T","E">>
S_RESETSTAT == <<"R","E","S","E","T","S","T","A","T">>
S_DIR == <<"D","I","R">>
S_DBFILE == <<"D","B","F","I","L","E">>
S_dir == <<"d","i","r">>
S_dbfilename == <<"d","b","f","i","l","e","n","a","m","e">>

\* DbConfig of a server started with --dir /tmp and the default file name
db_dir == <<"/","t","m","p">>
db_filename == <<"r","e","d","i","s",".","r","d","b">>

\* PingCommand::parse and execute
ping_command(args) ==
    IF args # <<>> THEN Reply(arg_count_error) ELSE Reply(SimpleString(S_PONG))

\* EchoCommand::parse and execute: exactly one argument, replied as it is
echo_command(args) ==
    IF Len(args) = 1 THEN Reply(args[1]) ELSE Reply(arg_count_error)

\* ConfigItem::try_from
ConfigItem_try_from(s) ==
    IF to_uppercase(s) = S_DIR THEN Some("Dir")
    ELSE IF to_uppercase(s) = S_DBFILE THEN Some("DbFile")
    ELSE None

\* ConfigCommand::execute_get: name and value of every requested item
RECURSIVE execute_get(_)
execute_get(items) ==
    IF items = <<>> THEN <<>>
    ELSE (IF ConfigItem_try_from(Head(items).data).val = "DbFile"
          THEN <<BulkString(S_dbfilename), BulkString(db_filename)>>
          ELSE <<BulkString(S_dir), BulkString(db_dir)>>)
         \o execute_get(Tail(items))

\* ConfigCommand::parse_set_command, as the error it returns or None
parse_set_command(args) ==
    IF Len(args) < 1 THEN Some(arg_count_error)
    ELSE IF ~bulk_string_value(args[1]).some THEN Some(arg_count_error)
    ELSE IF ~ConfigItem_try_from(args[1].data).some
         THEN Some(Error("ERR Unknown option or number of arguments for CONFIG SET"))
    ELSE IF Len(args) < 2 THEN Some(arg_count_error)
    ELSE IF ~bulk_string_value(args[2]).some THEN Some(arg_count_error)
    ELSE IF Len(args) > 2
         THEN Some(Error("ERR As of now only a single value may be set"))
    ELSE None

\* ConfigCommand::parse and execute: HELP and GET reply, the subcommands
\* SET, REWRITE and RESETSTAT end in unimplemented!()
config_command(args) ==
    IF Len(args) < 1 THEN Reply(arg_count_error)
    ELSE IF ~bulk_string_value(args[1]).some THEN Reply(arg_count_error)
    ELSE LET key == to_uppercase(args[1].data)
             rest == Tail(args)
         IN  IF key = S_HELP THEN Reply(Array(<<BulkString(S_HELP)>>))
             ELSE IF key \in {S_REWRITE, S_RESETSTAT} THEN Panic
             ELSE IF key = S_GET
                  THEN IF \E i \in 1..Len(rest) : ~bulk_string_value(rest[i]).some
                       THEN Reply(arg_count_error)
                       ELSE IF \E i \in 1..Len(rest) : ~ConfigItem_try_from(rest[i].data).some
                       THEN Reply(Error("ERR Unknown option or number of arguments for CONFIG GET"))
                       ELSE Reply(Array(execute_get(rest)))
             ELSE IF key = S_SET
                  THEN IF parse_set_command(rest).some
                       THEN Reply(parse_set_command(rest).val)
                       ELSE Panic
             ELSE Reply(Error("ERR unkown subcommand. Try CONFIG HELP"))

\* ReplConfCommand::parse and execute
replconf_command(args) == Reply(SimpleString(S_OK))

\* PsyncCommand::parse: a non-empty argument list is rejected, and an empty
\* one has no replication id to pop
psync_command(args) ==
    IF args # <<>> THEN Reply(arg_count_error)
    ELSE Reply(arg_count_error)

\* InfoCommand::parse and execute: the arguments are ignored
S_role_master == <<"r","o","l","e",":","m","a","s","t","e","r">>
info_command(args) == Reply(BulkString(S_role_master))

\* the keys of the map in the order DataStore::get_all_keys iterates them
RECURSIVE get_all_keys(_)
get_all_keys(keys) ==
    IF keys = {} THEN <<>>
    ELSE LET k == CHOOSE x \in keys : TRUE
         IN  <<BulkString(k)>> \o get_all_keys(keys \ {k})

\* KeysCommand::parse and execute: one bulk-string pattern, then every key
keys_command(args, map) ==
    IF Len(args) < 1 THEN Reply(arg_count_error)
    ELSE IF ~bulk_string_value(args[1]).some THEN Reply(arg_count_error)
    ELSE IF Len(args) > 1 THEN Reply(arg_count_error)
    ELSE Reply(Array(get_all_keys(DOMAIN map)))

----------------------------------------------------------------------------
(* The command registry (commands/command.rs) *)

\* UnparsedCommandType::new: the variant for the upper-cased first element
UnparsedCommandType_new(items) ==
    IF items = <<>> THEN [ok |-> FALSE, error |-> Error("No argument passed to redis!")]
    ELSE IF Head(items).type # "BulkString"
         THEN [ok |-> FALSE, error |-> Error("Command must be encoded as a bulk string!")]
    ELSE LET command_arg == to_uppercase(Head(items).data)
             variant == CASE command_arg = S_PING -> "Ping"
                          [] command_arg = S_GET -> "Get"
                          [] command_arg = S_SET -> "Set"
                          [] command_arg = S_ECHO -> "Echo"
                          [] command_arg = S_CONFIG -> "Config"
                          [] command_arg = S_KEYS -> "Keys"
                          [] command_arg = S_INFO -> "Info"
                          [] command_arg = S_REPLCONF -> "ReplConf"
                          [] command_arg = S_PSYNC -> "Psync"
                          [] OTHER -> "unknown"
         IN  IF variant = "unknown"
             THEN [ok |-> FALSE, error |-> Error("Unknown command name")]
             ELSE [ok |-> TRUE, variant |-> variant, args |-> Tail(items)]

\* UnparsedCommandType::parse and ParsedCommandType::execute for the
\* handlers that do not go through DataStore::get
parse_execute(variant, args, map) ==
    CASE variant = "Ping" -> ping_command(args)
      [] variant = "Echo" -> echo_command(args)
      [] variant = "Config" -> config_command(args)
      [] variant = "Keys" -> keys_command(args, map)
      [] variant = "Info" -> info_command(args)
      [] variant = "ReplConf" -> replconf_command(args)
      [] variant = "Psync" -> psync_command(args)

----------------------------------------------------------------------------
(* State *)

VARIABLES
    now,          \* Instant::now(), the monotonic clock in ms
    db,           \* DataStore.db: the map from key to DataUnit
    writes,       \* every entry put into the map, in the order the map took them
    pc,           \* where each worker thread is
    command,      \* process_message: the UnparsedCommandType a worker is processing
    key,          \* DataStore::get: the key of the call in progress
    value,        \* DataStore::get: the clone of the entry that was read
    checked_at,   \* DataStore::get: the instant is_expired compared with
    found,        \* the result of DataStore::get (old_value in SET)
    response,     \* recieve_message: the reply to write
    count,        \* requests the workers have received
    other_set,    \* another worker set the key since this worker read it
    other_remove, \* another worker removed the key since this worker read it
    last_ok,      \* the number of the last set on the key of this worker's GET,
                  \* if that set had been answered when the GET arrived, else 0
    wrote,        \* the number of the set this worker's command made, else 0
    expired_ids   \* entries for which some get has returned not-found

storeVars == <<now, db, writes>>
workerVars == <<pc, command, key, value, checked_at, found, response, count>>
historyVars == <<other_set, other_remove, last_ok, wrote, expired_ids>>

VARIABLES
    wstate,        \* each worker thread: "idle" in recv(), "busy" in a job, "dead",
                   \* "none" when the pool has not spawned it
    serving,       \* the connection whose job a busy worker runs, else 0
    channel,       \* the mpsc channel: the jobs sent and not yet received
    listener,      \* the main thread: "running" the accept loop or "panicked"
    conn,          \* each connection: "none", "queued", "open", "closed",
                   \* "lost" (its job dropped with the channel), "refused"
    client_closed, \* the client has closed its end
    sent,          \* the requests each client has sent, in order
    taken,         \* how many of them the server's reads have consumed
    decoded,       \* how many requests process_message has decoded
    replies,       \* the replies written to each connection, in order
    ran            \* the workers that received each connection's job, in order

serverVars == <<wstate, serving, channel, listener, conn, client_closed,
                sent, taken, decoded, replies, ran>>

VARIABLES
    original,      \* a RedisMessageType value handed to encode, else None
    wire,          \* what encode returned for it, else None
    result         \* what decode returned for that text, else None

codecVars == <<original, wire, result>>

VARIABLES
    cli_args,      \* Args: threads and the role the server was started with
    rdb_file,      \* the entries of the RDB file, None when it cannot be loaded
    main_pc,       \* the step of main the main thread is at
    dash_map,      \* to_dashmap: the entries inserted into the map being built
    config,        \* DB: None while the OnceCell is empty, else DataStore.config
    hs,            \* the handshake job: "none", "queued", "connect", "send",
                   \* "wait", "done" or "failed"
    master_in,     \* the commands written to the master socket, in order
    master_out,    \* the replies the master has written and nobody has read
    master_read    \* the simple strings the handshake has read and matched

mainVars == <<cli_args, rdb_file, main_pc, dash_map, config, hs, master_in,
              master_out, master_read>>

VARIABLES
    raw_data,      \* the bytes handed to a decoder of db_file.rs, else None
    rdb_result     \* what the decoder returned for them, else None

rdbVars == <<raw_data, rdb_result>>

VARIABLES
    request,       \* the bytes of the request one client sends, else None
    in_flight,     \* the segments the client has written that have not arrived
    socket,        \* the bytes that arrived and no read has returned yet
    peer_closed,   \* the client has closed its end of the connection
    collected,     \* read_message: data, the bytes collected in this call
    read_pc,       \* "read", "process", "returned" or "panicked"
    written        \* the replies recieve_message has written, in order

streamVars == <<request, in_flight, socket, peer_closed, collected, read_pc, written>>

\* what the actions on the store leave alone
outsideStore == <<serverVars, codecVars, mainVars, rdbVars, streamVars>>

vars == <<storeVars, workerVars, historyVars, serverVars, codecVars, mainVars, rdbVars, streamVars>>

\* no message is being encoded or decoded
CodecInit ==
    /\ original = None
    /\ wire = None
    /\ result = None

RdbInit ==
    /\ raw_data = None
    /\ rdb_result = None

\* no connection is being read at the level of single reads
StreamInit ==
    /\ request = None
    /\ in_flight = <<>>
    /\ socket = <<>>
    /\ peer_closed = FALSE
    /\ collected = <<>>
    /\ read_pc = "read"
    /\ written = <<>>

Conns == 1..NumConns

\* the pool and the connections before any client has connected
ServerInit ==
    /\ wstate = [w \in Workers |-> "idle"]
    /\ serving = [w \in Workers |-> 0]
    /\ channel = <<>>
    /\ listener = "running"
    /\ conn = [c \in Conns |-> "none"]
    /\ client_closed = [c \in Conns |-> FALSE]
    /\ sent = [c \in Conns |-> <<>>]
    /\ taken = [c \in Conns |-> 0]
    /\ decoded = [c \in Conns |-> 0]
    /\ replies = [c \in Conns |-> <<>>]
    /\ ran = [c \in Conns |-> <<>>]

\* the key and the values of the requests
K == <<"k">>
Keys == {K}
Values == {<<"a">>, <<"b">>}

\* the number of the last set on key, 0 when there was none
LastSetOn(log, k) ==
    IF \E i \in 1..Len(log) : log[i].key = k
    THEN CHOOSE i \in 1..Len(log) :
            /\ log[i].key = k
            /\ \A j \in (i + 1)..Len(log) : log[j].key # k
    ELSE 0

\* Database::to_dashmap and KeyValueDataUnit::to_data_unit: an entry of the
\* RDB file whose expiry timestamp lies in the past gets the instant of the
\* load as its deadline
LoadedUnit == DataUnit(<<"o">>, 0, 1)

\* DataStore::init: the map is empty (no file) or holds what the file held
InitialStores == { <<>>, [x \in {K} |-> LoadedUnit] }

\* an entry of the log of sets: the key, the DataUnit, the worker that
\* made the set (0 for the load of the file) and the relative expiry the
\* command gave with the instant at which DataUnit::new read the clock
LogEntry(k, unit, by, ttl, at) ==
    [key |-> k, unit |-> unit, by |-> by, ttl |-> ttl, at |-> IF ttl.some THEN at ELSE 0]

\* the number of the last set on key if a SET command made it and its reply
\* has been written, else 0
LastAnswered(log, k) ==
    IF LastSetOn(log, k) = 0 THEN 0
    ELSE IF log[LastSetOn(log, k)].by = 0 THEN 0
    ELSE IF \E u \in Workers : wrote[u] = LastSetOn(log, k) THEN 0
    ELSE LastSetOn(log, k)

\* workers that have read key in DataStore::get and not yet replied
Reading(k) ==
    { u \in Workers : /\ pc[u] \in {"get_check", "get_remove", "get_ret", "write"}
                      /\ key[u] = Some(k) }

\* ReplicationData::server() and ReplicationData::slave(host, port)
ReplicationData(replica_connection) ==
    [role |-> IF replica_connection.some THEN "slave" ELSE "master"]

\* DbConfig::new
DbConfig_new(dir, filename, replica_connection) ==
    [db_dir |-> dir, db_filename |-> filename,
     replication_data |-> ReplicationData(replica_connection)]

\* main, lines 25-61, in the order of the source: init_db, ThreadPool::new,
\* the match on the role, TcpListener::bind, the accept loop
MainSteps_pool_first == <<"pool", "init_db", "role", "bind", "accept">>
MainSteps == <<"init_db", "pool", "role", "bind", "accept">>

\* the main thread of a master in its accept loop
MainAtAccept ==
    /\ cli_args = [threads |-> NumWorkers, role |-> "master"]
    /\ rdb_file = IF db = <<>> THEN None ELSE Some(<<[key |-> K, unit |-> LoadedUnit]>>)
    /\ main_pc = Len(MainSteps)
    /\ dash_map = IF db = <<>> THEN <<>> ELSE <<[key |-> K, unit |-> LoadedUnit]>>
    /\ config = Some(DbConfig_new(db_dir, db_filename, None))
    /\ hs = "none"
    /\ master_in = <<>>
    /\ master_out = <<>>
    /\ master_read = <<>>

StoreInit ==
    /\ now = 0
    /\ db \in InitialStores
    /\ writes = [i \in 1..Cardinality(DOMAIN db) |-> LogEntry(K, LoadedUnit, 0, None, 0)]
    /\ pc = [w \in Workers |-> "recv"]
    /\ command = [w \in Workers |-> None]
    /\ key = [w \in Workers |-> None]
    /\ value = [w \in Workers |-> None]
    /\ checked_at = [w \in Workers |-> 0]
    /\ found = [w \in Workers |-> None]
    /\ response = [w \in Workers |-> None]
    /\ count = 0
    /\ other_set = [w \in Workers |-> FALSE]
    /\ other_remove = [w \in Workers |-> FALSE]
    /\ last_ok = [w \in Workers |-> 0]
    /\ wrote = [w \in Workers |-> 0]
    /\ expired_ids = {}
    /\ ServerInit
    /\ MainAtAccept
    /\ CodecInit
    /\ RdbInit
    /\ StreamInit

----------------------------------------------------------------------------
(* Requests of the store-level specification *)

Digits_0 == <<"0">>
Digits_1 == <<"1">>
Digits_max == <<"1","0","4","8","5","7","5">>

SetRequest(v, options) ==
    <<BulkString(S_SET), BulkString(K), BulkString(v)>> \o options

StoreRequests ==
    { <<BulkString(S_GET), BulkString(K)>>,
      SetRequest(<<"a">>, <<>>),
      SetRequest(<<"b">>, <<BulkString(S_PX), BulkString(Digits_1)>>),
      SetRequest(<<"a">>, <<BulkString(S_NX)>>),
      SetRequest(<<"b">>, <<BulkString(S_XX)>>),
      SetRequest(<<"b">>, <<BulkString(S_EX), BulkString(Digits_max)>>) }

----------------------------------------------------------------------------
(* Actions of the store-level specification *)

\* the clock advances
Tick ==
    /\ now < MaxNow
    /\ now' = now + 1
    /\ UNCHANGED <<db, writes, workerVars, historyVars>>
    /\ UNCHANGED outsideStore

\* the reply is ready: the worker goes on to write it
ToWrite(w, message) ==
    /\ response' = [response EXCEPT ![w] = Some(message)]
    /\ pc' = [pc EXCEPT ![w] = "write"]
    /\ UNCHANGED key

\* the command calls DataStore::get(k)
ToGet(w, k) ==
    /\ pc' = [pc EXCEPT ![w] = "get_read"]
    /\ key' = [key EXCEPT ![w] = Some(k)]
    /\ UNCHANGED response

\* GetCommand::parse gave get: the key or the error reply
ReceiveGet(w, get) ==
    IF get.ok
    THEN /\ ToGet(w, get.key)
         /\ last_ok' = [last_ok EXCEPT ![w] = LastAnswered(writes, get.key)]
    ELSE /\ ToWrite(w, get.error)
         /\ last_ok' = [last_ok EXCEPT ![w] = 0]

\* SetCommand::execute, lines 40-67: the checks of key and value gave check
ReceiveSet(w, args, check) ==
    /\ IF check.some THEN ToWrite(w, check.val)
       ELSE ToGet(w, as_string(args[1]).val)
    /\ last_ok' = [last_ok EXCEPT ![w] = 0]

\* a handler that does not read the store ran to outcome
ReceiveOther(w, outcome) ==
    /\ IF outcome.kind = "panic"
       THEN /\ pc' = [pc EXCEPT ![w] = "dead"]
            /\ UNCHANGED <<response, key>>
       ELSE ToWrite(w, outcome.response)
    /\ last_ok' = [last_ok EXCEPT ![w] = 0]

\* process_message: UnparsedCommandType::new gave cmd
Dispatch(w, cmd) ==
    /\ command' = [command EXCEPT ![w] = IF cmd.ok THEN Some(cmd) ELSE None]
    /\ IF ~cmd.ok
       THEN /\ ToWrite(w, cmd.error)
            /\ last_ok' = [last_ok EXCEPT ![w] = 0]
       ELSE IF cmd.variant = "Get" THEN ReceiveGet(w, GetCommand_new(cmd.args))
       ELSE IF cmd.variant = "Set"
       THEN ReceiveSet(w, cmd.args, set_check_key_value(cmd.args))
       ELSE ReceiveOther(w, parse_execute(cmd.variant, cmd.args, db))

\* recieve_message / process_message: a request arrives and is dispatched;
\* GET and SET go on to DataStore::get, the other handlers run to their reply
ReceiveRequest(w, items) ==
    /\ pc[w] = "recv"
    /\ count < MaxRequests
    /\ count' = count + 1
    /\ Dispatch(w, UnparsedCommandType_new(items))
    /\ UNCHANGED <<storeVars, value, checked_at, found,
                   other_set, other_remove, wrote, expired_ids>>
    /\ UNCHANGED outsideStore

\* DataStore::get, line 156: self.db.get(&key)?.clone()
GetRead(w) ==
    /\ pc[w] = "get_read"
    /\ LET k == key[w].val IN
       /\ IF k \in DOMAIN db
          THEN /\ value' = [value EXCEPT ![w] = Some(db[k])]
               /\ pc' = [pc EXCEPT ![w] = "get_check"]
               /\ UNCHANGED found
          ELSE /\ value' = [value EXCEPT ![w] = None]
               /\ found' = [found EXCEPT ![w] = None]
               /\ pc' = [pc EXCEPT ![w] = "get_ret"]
    /\ other_set' = [other_set EXCEPT ![w] = FALSE]
    /\ other_remove' = [other_remove EXCEPT ![w] = FALSE]
    /\ UNCHANGED <<storeVars, command, key, checked_at, response, count,
                   last_ok, wrote, expired_ids>>
    /\ UNCHANGED outsideStore

\* DataStore::get, line 158: value.is_expired()
GetCheck(w) ==
    /\ pc[w] = "get_check"
    /\ checked_at' = [checked_at EXCEPT ![w] = now]
    /\ IF is_expired(value[w].val, now)
       THEN /\ pc' = [pc EXCEPT ![w] = "get_remove"]
            /\ UNCHANGED found
       ELSE /\ found' = [found EXCEPT ![w] = value[w]]
            /\ pc' = [pc EXCEPT ![w] = "get_ret"]
    /\ UNCHANGED <<storeVars, command, key, value, response, count, historyVars>>
    /\ UNCHANGED outsideStore

\* DataStore::get, lines 159-161: self.remove_key(&key); return None
GetRemove(w) ==
    /\ pc[w] = "get_remove"
    /\ LET k == key[w].val IN
       /\ db' = remove_key(db, k)
       /\ other_remove' = [u \in Workers |->
                             IF u # w /\ u \in Reading(k) THEN TRUE ELSE other_remove[u]]
    /\ found' = [found EXCEPT ![w] = None]
    /\ pc' = [pc EXCEPT ![w] = "get_ret"]
    /\ expired_ids' = expired_ids \cup {value[w].val.id}
    /\ UNCHANGED <<now, writes, command, key, value, checked_at, response, count,
                   other_set, last_ok, wrote>>
    /\ UNCHANGED outsideStore

\* GetCommand::execute: the reply for what DataStore::get returned
GetReply(w) ==
    /\ pc[w] = "get_ret"
    /\ command[w].val.variant = "Get"
    /\ response' = [response EXCEPT ![w] = Some(GetCommand_execute(found[w]))]
    /\ pc' = [pc EXCEPT ![w] = "write"]
    /\ UNCHANGED <<storeVars, command, key, value, checked_at, found, count, historyVars>>
    /\ UNCHANGED outsideStore

\* SetCommand::execute, lines 91-122: the panic ends the thread; otherwise
\* the write, if the gate lets it happen, and the reply
SetOutcome(w, k, outcome) ==
    IF outcome.kind = "panic"
    THEN /\ pc' = [pc EXCEPT ![w] = "dead"]
         /\ UNCHANGED <<db, writes, response, other_set, wrote>>
    ELSE /\ pc' = [pc EXCEPT ![w] = "write"]
         /\ response' = [response EXCEPT ![w] = Some(outcome.response)]
         /\ IF outcome.write.some
            THEN /\ db' = set(db, k, outcome.write.val)
                 /\ writes' = Append(writes,
                                     LogEntry(k, outcome.write.val, w,
                                              outcome.expiry, now))
                 /\ wrote' = [wrote EXCEPT ![w] = Len(writes) + 1]
                 /\ other_set' = [u \in Workers |->
                                    IF u # w /\ u \in Reading(k)
                                    THEN TRUE ELSE other_set[u]]
            ELSE UNCHANGED <<db, writes, other_set, wrote>>

\* SetCommand::execute from parse_arguments on: the options, the gate, the
\* new DataUnit and DataStore::set
SetExecute(w) ==
    /\ pc[w] = "get_ret"
    /\ command[w].val.variant = "Set"
    /\ \E overflow_checks \in BOOLEAN :
         SetOutcome(w, key[w].val,
                    set_execute(command[w].val.args, found[w], now, overflow_checks,
                                Len(writes) + 1))
    /\ UNCHANGED <<now, command, key, value, checked_at, found, count,
                   other_remove, last_ok, expired_ids>>
    /\ UNCHANGED outsideStore

\* recieve_message, lines 116-118: the reply is written and the loop goes
\* back to read_message
WriteResponse(w) ==
    /\ pc[w] = "write"
    /\ pc' = [pc EXCEPT ![w] = "recv"]
    /\ command' = [command EXCEPT ![w] = None]
    /\ key' = [key EXCEPT ![w] = None]
    /\ value' = [value EXCEPT ![w] = None]
    /\ checked_at' = [checked_at EXCEPT ![w] = 0]
    /\ found' = [found EXCEPT ![w] = None]
    /\ response' = [response EXCEPT ![w] = None]
    /\ other_set' = [other_set EXCEPT ![w] = FALSE]
    /\ other_remove' = [other_remove EXCEPT ![w] = FALSE]
    /\ last_ok' = [last_ok EXCEPT ![w] = 0]
    /\ wrote' = [wrote EXCEPT ![w] = 0]
    /\ UNCHANGED <<storeVars, count, expired_ids>>
    /\ UNCHANGED outsideStore

Init == StoreInit

Next ==
    \/ Tick
    \/ \E w \in Workers : \E items \in StoreRequests : ReceiveRequest(w, items)
    \/ \E w \in Workers : GetRead(w)
    \/ \E w \in Workers : GetCheck(w)
    \/ \E w \in Workers : GetRemove(w)
    \/ \E w \in Workers : GetReply(w)
    \/ \E w \in Workers : SetExecute(w)
    \/ \E w \in Workers : WriteResponse(w)

Spec == Init /\ [][Next]_vars

TypeOK ==
    /\ now \in 0..MaxNow
    /\ DOMAIN db \subseteq Keys
    /\ \A w \in Workers : pc[w] \in {"recv", "get_read", "get_check", "get_remove",
                                      "get_ret", "write", "dead"}

----------------------------------------------------------------------------
(* DataStore::get and lazy expiry *)

\* the entry worker w read has a deadline that had passed when w checked it
ObservedExpired(w) ==
    /\ value[w].some
    /\ value[w].val.expiry_deadline # NoDeadline
    /\ value[w].val.expiry_deadline <= checked_at[w]

\* C1: when DataStore::get returns, an entry it read with expiry_deadline <=
\* now has produced not-found and, unless another worker set the key in the
\* meantime, the key is no longer in the map; an entry with no deadline or a
\* deadline in the future is what get returns, and it is still in the map
\* unless another worker set or removed the key in the meantime
C1_GetRemovesExpired ==
    \A w \in Workers :
        (pc[w] = "get_ret" /\ value[w].some) =>
            IF ObservedExpired(w)
            THEN /\ found[w] = None
                 /\ (~other_set[w] => key[w].val \notin DOMAIN db)
            ELSE /\ found[w] = value[w]
                 /\ ((~other_set[w] /\ ~other_remove[w]) =>
                        /\ key[w].val \in DOMAIN db
                        /\ db[key[w].val] = value[w].val)

\* a get has found an expired entry and removed it, and a get has returned
\* a live entry
C1_Witness ==
    /\ \E w \in Workers :
          pc[w] = "get_ret" /\ ObservedExpired(w) /\ ~other_set[w] /\ K \notin DOMAIN db
    /\ \E u \in Workers :
          /\ pc[u] = "get_ret" /\ value[u].some /\ ~ObservedExpired(u)
          /\ found[u] = value[u] /\ value[u].val.expiry_deadline > checked_at[u]

\* no other worker set or removed the key since worker w read it
Quiet(w) == ~other_set[w] /\ ~other_remove[w]

\* worker w executes a SET that has passed the checks of key and value
InSet(w) == command[w].some /\ command[w].val.variant = "Set" /\ key[w].some

\* worker w executes a GET with a key
InGet(w) == command[w].some /\ command[w].val.variant = "Get" /\ key[w].some

\* a DataUnit whose deadline has not passed at instant t
Live(unit, t) == unit.expiry_deadline = NoDeadline \/ unit.expiry_deadline > t

\* C2: every get returns not-found or exactly the entry one single set on the
\* key wrote, and when no set is in progress the map holds the entry of the
\* set serialised last (as long as its deadline has not passed)
C2_SetsSerialised ==
    /\ \A w \in Workers :
         (pc[w] = "get_ret" /\ found[w].some) =>
            \E i \in 1..Len(writes) :
               writes[i].key = key[w].val /\ writes[i].unit = found[w].val
    /\ \A k \in Keys :
         ( /\ \A u \in Workers : ~(InSet(u) /\ pc[u] \in {"get_read", "get_check",
                                                           "get_remove", "get_ret"})
           /\ LastSetOn(writes, k) > 0
           /\ Live(writes[LastSetOn(writes, k)].unit, now) )
         => (k \in DOMAIN db /\ db[k] = writes[LastSetOn(writes, k)].unit)

\* C3: the removal step of a get that observed an expired entry does not
\* delete an entry another worker's set has installed since: if the map
\* holds a different entry than the one the get read, it still holds that
\* entry after the removal
C3_GetKeepsNewEntry ==
    [][ \A w \in Workers :
          ( /\ pc[w] = "get_remove" /\ pc'[w] = "get_ret"
            /\ key[w].val \in DOMAIN db
            /\ db[key[w].val] # value[w].val )
          => (key[w].val \in DOMAIN db' /\ db'[key[w].val] = db[key[w].val]) ]_vars

----------------------------------------------------------------------------
(* SET and GET *)

SetOptions(w) == SubSeq(command[w].val.args, 3, Len(command[w].val.args))
IsNX(w) == InSet(w) /\ SetOptions(w) = <<BulkString(S_NX)>>
IsXX(w) == InSet(w) /\ SetOptions(w) = <<BulkString(S_XX)>>

\* the gate of worker w's SET refuses: NX with a live entry, XX without one
GateRefuses(w) == (IsNX(w) /\ found[w].some) \/ (IsXX(w) /\ ~found[w].some)

\* the SET of worker w made the write and replied OK, and the map holds what
\* it wrote unless another worker touched the key
WroteOk(w) ==
    /\ response[w] = Some(SimpleString(S_OK))
    /\ wrote[w] > 0
    /\ writes[wrote[w]].unit.value = as_string(command[w].val.args[2]).val
    /\ Quiet(w) => (key[w].val \in DOMAIN db
                    /\ db[key[w].val] = writes[wrote[w]].unit)

\* C4 as stated: SET NX with a live entry and SET XX without one reply an
\* Error and leave the entry of the key in the map exactly as the command
\* found it; in the opposite cases the write happens and the reply is OK
C4_GateLeavesEntry ==
    \A w \in Workers :
        (pc[w] = "write" /\ (IsNX(w) \/ IsXX(w))) =>
            IF GateRefuses(w)
            THEN /\ response[w].val.type = "Error"
                 /\ wrote[w] = 0
                 /\ Quiet(w) =>
                      IF value[w].some
                      THEN key[w].val \in DOMAIN db /\ db[key[w].val] = value[w].val
                      ELSE key[w].val \notin DOMAIN db
            ELSE WroteOk(w)

\* C4, amended: SET NX with a live entry replies an Error and leaves the
\* entry as it was; SET XX without a live entry replies an Error, makes no
\* write, and the only change it makes is that an entry it found expired
\* is removed; in the opposite cases the write happens and the reply is OK
C4_GateNoWrite ==
    \A w \in Workers :
        (pc[w] = "write" /\ (IsNX(w) \/ IsXX(w))) =>
            IF GateRefuses(w)
            THEN /\ response[w].val.type = "Error"
                 /\ wrote[w] = 0
                 /\ Quiet(w) =>
                      IF IsNX(w)
                      THEN key[w].val \in DOMAIN db /\ db[key[w].val] = value[w].val
                      ELSE /\ key[w].val \notin DOMAIN db
                           /\ value[w].some => ObservedExpired(w)
            ELSE WroteOk(w)

\* a SET XX has found an expired entry, replied an Error and the entry is gone
C4_Witness ==
    \E w \in Workers :
        /\ pc[w] = "write" /\ IsXX(w) /\ GateRefuses(w) /\ Quiet(w)
        /\ value[w].some /\ ObservedExpired(w)
        /\ response[w].val.type = "Error"
        /\ key[w].val \notin DOMAIN db

\* C5: a GET that arrives after the last SET on its key was answered, with no
\* later set on the key and the entry's deadline not passed, replies
\* BulkString of that SET's value; a GET of a key nobody set replies
\* NullBulkString
C5_GetRepliesLastSet ==
    \A w \in Workers :
        (pc[w] = "write" /\ InGet(w)) =>
            /\ ( /\ last_ok[w] > 0
                 /\ LastSetOn(writes, key[w].val) = last_ok[w]
                 /\ Live(writes[last_ok[w]].unit, now) )
               => response[w] = Some(BulkString(writes[last_ok[w]].unit.value))
            /\ LastSetOn(writes, key[w].val) = 0
               => response[w] = Some(NullBulkString)

\* C6: an entry a SET stored with a relative expiry of n at instant t is
\* returned by a get that checks it before t + n and is not-found for a get
\* that checks it at t + n or later; an entry a SET stored without expiry
\* is always returned
C6_RelativeExpiry ==
    \A w \in Workers :
        (pc[w] = "get_ret" /\ value[w].some /\ writes[value[w].val.id].by # 0) =>
            LET e == writes[value[w].val.id] IN
            IF e.ttl.some
            THEN found[w].some <=> (checked_at[w] < e.at + e.ttl.val)
            ELSE found[w] = value[w]

\* C7: once a get has returned not-found for an entry because its deadline
\* had passed, no get whose expiry check comes later returns that entry
C7_ExpiredStaysGone ==
    [][ \A w \in Workers :
          (pc[w] = "get_check" /\ pc'[w] = "get_ret")
          => value[w].val.id \notin expired_ids ]_vars

\* a get checks an entry for which another get has already returned
\* not-found, and finds it expired as well
C7_Witness ==
    \E w \in Workers :
        /\ pc[w] = "get_remove"
        /\ value[w].val.id \in expired_ids
        /\ checked_at[w] > value[w].val.expiry_deadline

----------------------------------------------------------------------------
(* The server: listener, worker pool and connections (main.rs,            *)
(* utils/thread_pool.rs)                                                   *)

\* DataStore::get as one call: the result and the map it leaves
DataStore_get(map, k, instantNow) ==
    IF k \notin DOMAIN map THEN [found |-> None, map |-> map]
    ELSE IF is_expired(map[k], instantNow)
         THEN [found |-> None, map |-> remove_key(map, k)]
    ELSE [found |-> Some(map[k]), map |-> map]

Outcome(kind, message, map, write, expiry) ==
    [kind |-> kind, response |-> message, map |-> map, write |-> write,
     expiry |-> expiry]

\* GetCommand::execute on what DataStore::get gave
process_get(got) ==
    Outcome("reply", GetCommand_execute(got.found), got.map, None, None)

\* SetCommand::execute on what set_execute decided, k set in the map that
\* DataStore::get left
process_set_outcome(k, map, out, instantNow) ==
    IF out.kind = "panic" THEN Outcome("panic", None, map, None, None)
    ELSE IF out.write.some
    THEN Outcome("reply", out.response, set(map, k, out.write.val),
                 Some(LogEntry(k, out.write.val, 0, out.expiry, instantNow)),
                 out.expiry)
    ELSE Outcome("reply", out.response, map, None, None)

\* SetCommand::execute from the read of old_value on
process_set(args, k, got, instantNow, overflow_checks, id) ==
    process_set_outcome(k, got.map,
                        set_execute(args, got.found, instantNow, overflow_checks, id),
                        instantNow)

\* a handler that does not read the store
process_other(out, map) ==
    IF out.kind = "panic" THEN Outcome("panic", None, map, None, None)
    ELSE Outcome("reply", out.response, map, None, None)

\* UnparsedCommandType::parse and ParsedCommandType::execute
process_command(cmd, map, instantNow, overflow_checks, id) ==
    IF ~cmd.ok THEN Outcome("reply", cmd.error, map, None, None)
    ELSE IF cmd.variant = "Get"
    THEN IF ~GetCommand_new(cmd.args).ok
         THEN Outcome("reply", GetCommand_new(cmd.args).error, map, None, None)
         ELSE process_get(DataStore_get(map, GetCommand_new(cmd.args).key, instantNow))
    ELSE IF cmd.variant = "Set"
    THEN IF set_check_key_value(cmd.args).some
         THEN Outcome("reply", set_check_key_value(cmd.args).val, map, None, None)
         ELSE process_set(cmd.args, as_string(cmd.args[1]).val,
                          DataStore_get(map, as_string(cmd.args[1]).val, instantNow),
                          instantNow, overflow_checks, id)
    ELSE process_other(parse_execute(cmd.variant, cmd.args, map), map)

\* process_message on a decoded array: UnparsedCommandType::new, parse and
\* execute; the outcome is a reply or a panic, with the map the call leaves
process_message(items, map, instantNow, overflow_checks, id) ==
    process_command(UnparsedCommandType_new(items), map, instantNow,
                    overflow_checks, id)

\* the requests the clients of the server-level specification send
ServerRequests ==
    { <<BulkString(S_PING)>>,
      SetRequest(<<"a">>, <<>>),
      <<BulkString(S_CONFIG), BulkString(S_REWRITE)>> }

\* the number of requests the clients in set S have sent
RECURSIVE SentTotal(_)
SentTotal(S) ==
    IF S = {} THEN 0
    ELSE LET c == CHOOSE x \in S : TRUE IN Len(sent[c]) + SentTotal(S \ {c})

\* the Receiver is dropped when the last worker thread has ended
ReceiverDropped(states) == \A w \in Workers : states[w] \in {"dead", "none"}

frozenStore == <<now, writes, workerVars, historyVars, codecVars, mainVars, rdbVars, streamVars>>

\* main, lines 55-60: a client connects, listener.incoming() yields the
\* stream and pool.execute sends the job; send fails when the Receiver is
\* gone and the unwrap panics the main thread
Accept(c) ==
    /\ listener = "running"
    /\ conn[c] = "none"
    /\ IF ReceiverDropped(wstate)
       THEN /\ listener' = "panicked"
            /\ conn' = [conn EXCEPT ![c] = "refused"]
            /\ UNCHANGED channel
       ELSE /\ channel' = Append(channel, c)
            /\ conn' = [conn EXCEPT ![c] = "queued"]
            /\ UNCHANGED listener
    /\ UNCHANGED <<wstate, serving, client_closed, sent, taken, decoded, replies, ran>>
    /\ UNCHANGED <<db, frozenStore>>

\* Worker::new, line 22: receiver.lock().unwrap().recv().unwrap() returns
\* the oldest job and the worker calls it
TakeJob(w) ==
    /\ wstate[w] = "idle"
    /\ channel # <<>>
    /\ Head(channel) \in Conns
    /\ wstate' = [wstate EXCEPT ![w] = "busy"]
    /\ serving' = [serving EXCEPT ![w] = Head(channel)]
    /\ channel' = Tail(channel)
    /\ conn' = [conn EXCEPT ![Head(channel)] = "open"]
    /\ ran' = [ran EXCEPT ![Head(channel)] = Append(@, w)]
    /\ UNCHANGED <<listener, client_closed, sent, taken, decoded, replies>>
    /\ UNCHANGED <<db, frozenStore>>

\* a client writes one request to its socket
ClientSend(c, items) ==
    /\ conn[c] \in {"queued", "open"}
    /\ ~client_closed[c]
    /\ SentTotal(Conns) < MaxSends
    /\ sent' = [sent EXCEPT ![c] = Append(@, items)]
    /\ UNCHANGED <<wstate, serving, channel, listener, conn, client_closed,
                   taken, decoded, replies, ran>>
    /\ UNCHANGED <<db, frozenStore>>

\* a client closes its socket
ClientClose(c) ==
    /\ conn[c] \in {"queued", "open"}
    /\ ~client_closed[c]
    /\ client_closed' = [client_closed EXCEPT ![c] = TRUE]
    /\ UNCHANGED <<wstate, serving, channel, listener, conn, sent, taken,
                   decoded, replies, ran>>
    /\ UNCHANGED <<db, frozenStore>>

\* the thread of worker w ends by a panic while it serves connection c:
\* the stream is dropped and, when it was the last worker, the Receiver
\* with the jobs still queued
WorkerPanics(w, c, states) ==
    /\ wstate' = states
    /\ serving' = [serving EXCEPT ![w] = 0]
    /\ conn' = [x \in Conns |->
                  IF x = c THEN "closed"
                  ELSE IF ReceiverDropped(states) /\ conn[x] = "queued"
                       THEN "lost" ELSE conn[x]]
    /\ channel' = IF ReceiverDropped(states) THEN <<>> ELSE channel
    /\ UNCHANGED replies

\* recieve_message, lines 111-118: what process_message gave is applied and
\* the reply is written
Served(w, c, out) ==
    /\ db' = out.map
    /\ writes' = IF out.write.some THEN Append(writes, out.write.val) ELSE writes
    /\ IF out.kind = "panic"
       THEN WorkerPanics(w, c, [wstate EXCEPT ![w] = "dead"])
       ELSE /\ replies' = [replies EXCEPT ![c] =
                             Append(@, [to |-> taken[c] + 1, by |-> w,
                                        msg |-> out.response])]
            /\ UNCHANGED <<wstate, serving, conn, channel>>

\* recieve_message, one turn of the loop: read_message returns every byte
\* the socket holds, process_message decodes the first message of them and
\* executes it, and the reply is written; a panic ends the worker thread
HandleRead(w) ==
    /\ wstate[w] = "busy"
    /\ serving[w] \in Conns
    /\ taken[serving[w]] < Len(sent[serving[w]])
    /\ taken' = [taken EXCEPT ![serving[w]] = Len(sent[serving[w]])]
    /\ decoded' = [decoded EXCEPT ![serving[w]] = @ + 1]
    /\ \E overflow_checks \in BOOLEAN :
         Served(w, serving[w],
                process_message(sent[serving[w]][taken[serving[w]] + 1], db, now,
                                overflow_checks, Len(writes) + 1))
    /\ UNCHANGED <<listener, client_closed, sent, ran>>
    /\ UNCHANGED <<now, workerVars, historyVars, codecVars, mainVars, rdbVars, streamVars>>

\* recieve_message, lines 93-96: a read of zero bytes, the job returns and
\* the worker goes back to recv()
HandleEof(w) ==
    /\ wstate[w] = "busy"
    /\ serving[w] \in Conns
    /\ taken[serving[w]] = Len(sent[serving[w]])
    /\ client_closed[serving[w]]
    /\ wstate' = [wstate EXCEPT ![w] = "idle"]
    /\ serving' = [serving EXCEPT ![w] = 0]
    /\ conn' = [conn EXCEPT ![serving[w]] = "closed"]
    /\ UNCHANGED <<channel, listener, client_closed, sent, taken, decoded, replies, ran>>
    /\ UNCHANGED <<db, frozenStore>>

InitServer ==
    /\ now = 0
    /\ db = <<>>
    /\ writes = <<>>
    /\ pc = [w \in Workers |-> "recv"]
    /\ command = [w \in Workers |-> None]
    /\ key = [w \in Workers |-> None]
    /\ value = [w \in Workers |-> None]
    /\ checked_at = [w \in Workers |-> 0]
    /\ found = [w \in Workers |-> None]
    /\ response = [w \in Workers |-> None]
    /\ count = 0
    /\ other_set = [w \in Workers |-> FALSE]
    /\ other_remove = [w \in Workers |-> FALSE]
    /\ last_ok = [w \in Workers |-> 0]
    /\ wrote = [w \in Workers |-> 0]
    /\ expired_ids = {}
    /\ ServerInit
    /\ MainAtAccept
    /\ CodecInit
    /\ RdbInit
    /\ StreamInit

NextServer ==
    \/ \E c \in Conns : Accept(c)
    \/ \E w \in Workers : TakeJob(w)
    \/ \E c \in Conns : \E items \in ServerRequests : ClientSend(c, items)
    \/ \E c \in Conns : ClientClose(c)
    \/ \E w \in Workers : HandleRead(w)
    \/ \E w \in Workers : HandleEof(w)

SpecServer == InitServer /\ [][NextServer]_vars

----------------------------------------------------------------------------
(* Requests, replies and jobs *)

\* C8: every request that process_message decodes gets exactly one reply,
\* the server does not close a connection the client has not closed, and
\* no worker thread terminates
C8_OneReplyPerRequest ==
    /\ \A c \in Conns : Len(replies[c]) = decoded[c]
    /\ \A c \in Conns : conn[c] = "closed" => client_closed[c]
    /\ \A w \in Workers : wstate[w] # "dead"

\* C9: on every connection the i-th reply written is the reply to the i-th
\* request the client sent
C9_RepliesInOrder ==
    \A c \in Conns : \A i \in 1..Len(replies[c]) : replies[c][i].to = i

\* C10: every job is received by at most one worker and at most once, at
\* most NumWorkers jobs run at the same time, every reply of a connection
\* is written by the worker that received its job, and no submitted job is
\* dropped without being run
C10_JobsRunOnce ==
    /\ \A c \in Conns : Len(ran[c]) <= 1
    /\ Cardinality({w \in Workers : wstate[w] = "busy"}) <= NumWorkers
    /\ \A c \in Conns : \A i \in 1..Len(replies[c]) : replies[c][i].by = ran[c][1]
    /\ \A w, u \in Workers :
         (w # u /\ wstate[w] = "busy" /\ wstate[u] = "busy") => serving[w] # serving[u]
    /\ \A c \in Conns : conn[c] \notin {"lost", "refused"}
    /\ listener = "running"

\* C11: the number of live worker threads equals the size of the pool in
\* every reachable state, whatever jobs have run and however they ended
C11_WorkerCount ==
    Cardinality({w \in Workers : wstate[w] \in {"idle", "busy"}}) = NumWorkers

----------------------------------------------------------------------------
(* The RESP codec (parser/messages.rs).  Wire text is a sequence of        *)
(* one-character strings, one per byte                                      *)

CR == "\r"
LF == "\n"
CRLF == <<CR, LF>>

\* the suffix &s[n..]; the caller checks n <= s.len()
SliceFrom(s, n) == SubSeq(s, n + 1, Len(s))

\* str::find(CRLF): the index of the first CR that LF follows, 0 when none
find_crlf(s) ==
    IF \E i \in 1..(Len(s) - 1) : s[i] = CR /\ s[i + 1] = LF
    THEN CHOOSE i \in 1..(Len(s) - 1) :
            /\ s[i] = CR /\ s[i + 1] = LF
            /\ \A j \in 1..(i - 1) : ~(s[j] = CR /\ s[j + 1] = LF)
    ELSE 0

\* str::split_once(CRLF): the text before and after the first CRLF
split_once(s) ==
    IF find_crlf(s) = 0 THEN None
    ELSE Some([before |-> SubSeq(s, 1, find_crlf(s) - 1),
               after |-> SliceFrom(s, find_crlf(s) + 1)])

\* Display of an unsigned number: its decimal digits
RECURSIVE fmt_unsigned(_)
fmt_unsigned(n) ==
    IF n < 10 THEN <<DigitChars[n + 1]>>
    ELSE fmt_unsigned(n \div 10) \o <<DigitChars[(n % 10) + 1]>>

\* Display of an i64: a minus sign before the digits of a negative number
fmt_i64(n) == IF n < 0 THEN <<"-">> \o fmt_unsigned(0 - n) ELSE fmt_unsigned(n)

\* the digit loop of i64::from_str_radix(_, 10) for one sign: checked
\* multiply and add against the largest magnitude of that sign
RECURSIVE ParseMagnitude(_, _, _)
ParseMagnitude(s, acc, limit) ==
    IF s = <<>> THEN Some(acc)
    ELSE IF ~IsDigit(Head(s)) THEN None
    ELSE IF acc * 10 + DigitValue(Head(s)) > limit THEN None
    ELSE ParseMagnitude(Tail(s), acc * 10 + DigitValue(Head(s)), limit)

negate(parsed) == IF parsed.some THEN Some(0 - parsed.val) ELSE None

\* i64::from_str_radix(val, 10): an optional "+" or "-", then at least one
\* digit; the empty string, a lone sign, a non-digit and an overflow fail
i64_from_str_radix(s) ==
    IF s = <<>> THEN None
    ELSE IF Head(s) = "+"
         THEN (IF Tail(s) = <<>> THEN None ELSE ParseMagnitude(Tail(s), 0, I64_MAX))
    ELSE IF Head(s) = "-"
         THEN (IF Tail(s) = <<>> THEN None
               ELSE negate(ParseMagnitude(Tail(s), 0, I64_MAX + 1)))
    ELSE ParseMagnitude(s, 0, I64_MAX)

\* RedisMessageType::encode
RECURSIVE encode(_)
RECURSIVE encode_array_elements(_)
encode_array_elements(data) ==
    IF data = <<>> THEN <<>>
    ELSE encode(Head(data)) \o encode_array_elements(Tail(data))

encode(m) ==
    IF m.type = "SimpleString" THEN <<"+">> \o m.data \o CRLF
    ELSE IF m.type = "BulkString"
    THEN <<"$">> \o fmt_unsigned(Len(m.data)) \o CRLF \o m.data \o CRLF
    ELSE IF m.type = "Integer" THEN <<":">> \o fmt_i64(m.data) \o CRLF
    ELSE <<"*">> \o fmt_unsigned(Len(m.data)) \o CRLF \o encode_array_elements(m.data)

\* RedisDecodeResult: Ok((message, consumed)), Err(_), or a panic of the
\* decoding thread (an expect on a missing CRLF, a slice out of range)
DecodeOk(m, consumed) == [kind |-> "ok", message |-> m, consumed |-> consumed]
DecodeErr == [kind |-> "err"]
DecodePanic == [kind |-> "panic"]

\* parse_simple_string on s[1..] split at the first CRLF
simple_string_of(split) ==
    IF ~split.some THEN DecodePanic
    ELSE DecodeOk(SimpleString(split.val.before), Len(split.val.before) + 3)

parse_simple_string(s) == simple_string_of(split_once(SliceFrom(s, 1)))

\* parse_bulk_string, lines 93-97: value[0..length] and the count
bulk_string_of(length_str, rest, length) ==
    IF length = ParseError THEN DecodeErr
    ELSE IF length > Len(rest) THEN DecodePanic
    ELSE DecodeOk(BulkString(SubSeq(rest, 1, length)),
                  Len(length_str) + 3 + length + 2)

bulk_string_split(split) ==
    IF ~split.some THEN DecodePanic
    ELSE bulk_string_of(split.val.before, split.val.after,
                        u64_from_str_radix(split.val.before))

parse_bulk_string(s) == bulk_string_split(split_once(SliceFrom(s, 1)))

\* parse_integer
integer_of(value_str, parsed) ==
    IF ~parsed.some THEN DecodeErr
    ELSE DecodeOk(Integer(parsed.val), Len(value_str) + 3)

integer_split(split) ==
    IF ~split.some THEN DecodePanic
    ELSE integer_of(split.val.before, i64_from_str_radix(split.val.before))

parse_integer(s) == integer_split(split_once(SliceFrom(s, 1)))

RECURSIVE decode(_)
RECURSIVE array_loop(_, _, _, _)

\* parse_array, lines 124-127: one turn of the loop on what decode gave for
\* the element: the count is added, the text left is advanced by it (a count past
\* the end of it is a slice out of range) and the element is pushed
array_element(rest, remaining, array, all_value_length, message_type) ==
    IF message_type.kind # "ok" THEN message_type
    ELSE IF message_type.consumed > Len(rest) THEN DecodePanic
    ELSE array_loop(SliceFrom(rest, message_type.consumed), remaining - 1,
                    Append(array, message_type.message),
                    all_value_length + message_type.consumed)

\* parse_array, lines 123-128: the loop over the declared number of elements
array_loop(rest, remaining, array, all_value_length) ==
    IF remaining = 0 THEN DecodeOk(Array(array), all_value_length)
    ELSE array_element(rest, remaining, array, all_value_length, decode(rest))

\* parse_array, line 130: length_str is the text before the first CRLF of s
\* itself, the "*" included
array_of(length_str, elements) ==
    IF elements.kind # "ok" THEN elements
    ELSE DecodeOk(elements.message, Len(length_str) + 3 + elements.consumed)

array_split(split, length) ==
    IF length = ParseError THEN DecodeErr
    ELSE array_of(split.val.before, array_loop(split.val.after, length, <<>>, 0))

parse_array_split(split) ==
    IF ~split.some THEN DecodePanic
    ELSE array_split(split, u64_from_str_radix(SliceFrom(split.val.before, 1)))

parse_array(s) == parse_array_split(split_once(s))

\* RedisMessageType::decode: dispatch on the first character
decode(s) ==
    IF s = <<>> THEN DecodeErr
    ELSE IF Head(s) = "+" THEN parse_simple_string(s)
    ELSE IF Head(s) = "$" THEN parse_bulk_string(s)
    ELSE IF Head(s) = ":" THEN parse_integer(s)
    ELSE IF Head(s) = "*" THEN parse_array(s)
    ELSE DecodeErr

----------------------------------------------------------------------------
(* The codec applied to messages: encode, then decode of the text *)

\* messages without elements of their own
CodecAtoms ==
    { SimpleString(<<>>), SimpleString(<<"a">>),
      BulkString(<<>>), BulkString(<<"a">>), BulkString(<<"a", CR, LF, "b">>),
      BulkString(<<"0","1","2","3","4","5","6","7","8","9">>),
      Integer(0), Integer(0 - 23), Integer(123) }

\* the sequences of at most MaxElems elements of S
SeqsUpTo(S) == UNION { [1..n -> S] : n \in 0..MaxElems }

\* arrays of atoms, the empty array included
FlatArrays == { Array(xs) : xs \in SeqsUpTo(CodecAtoms) }

\* arrays that hold arrays
NestedArrays ==
    { Array(xs) : xs \in SeqsUpTo({ Integer(0), Array(<<>>), Array(<<SimpleString(<<"a">>)>>) }) }

CodecMessages == CodecAtoms \cup FlatArrays \cup NestedArrays

\* the store empty and no worker inside a command
StoreAtRest ==
    /\ now = 0
    /\ db = <<>>
    /\ writes = <<>>
    /\ pc = [w \in Workers |-> "recv"]
    /\ command = [w \in Workers |-> None]
    /\ key = [w \in Workers |-> None]
    /\ value = [w \in Workers |-> None]
    /\ checked_at = [w \in Workers |-> 0]
    /\ found = [w \in Workers |-> None]
    /\ response = [w \in Workers |-> None]
    /\ count = 0
    /\ other_set = [w \in Workers |-> FALSE]
    /\ other_remove = [w \in Workers |-> FALSE]
    /\ last_ok = [w \in Workers |-> 0]
    /\ wrote = [w \in Workers |-> 0]
    /\ expired_ids = {}

\* the store, the workers and the pool at rest
ServerAtRest ==
    /\ StoreAtRest
    /\ ServerInit
    /\ MainAtAccept

InitCodec ==
    /\ ServerAtRest
    /\ RdbInit
    /\ StreamInit
    /\ original \in { Some(m) : m \in CodecMessages }
    /\ wire = None
    /\ result = None

\* RedisMessageType::encode on the message
Encode ==
    /\ wire = None
    /\ wire' = Some(encode(original.val))
    /\ UNCHANGED <<original, result>>
    /\ UNCHANGED <<storeVars, workerVars, historyVars, serverVars, mainVars, rdbVars, streamVars>>

\* RedisMessageType::decode on the text encode returned
Decode ==
    /\ wire # None
    /\ result = None
    /\ result' = Some(decode(wire.val))
    /\ UNCHANGED <<original, wire>>
    /\ UNCHANGED <<storeVars, workerVars, historyVars, serverVars, mainVars, rdbVars, streamVars>>

NextCodec == Encode \/ Decode

SpecCodec == InitCodec /\ [][NextCodec]_vars

\* C20: for every message built from SimpleString, Integer, BulkString and
\* Array, decode(encode(m)) returns m and a consumed count equal to the
\* length of encode(m)
C20_RoundTrip ==
    result # None =>
        /\ result.val.kind = "ok"
        /\ result.val.message = original.val
        /\ result.val.consumed = Len(wire.val)

----------------------------------------------------------------------------
(* The connection loop on the bytes of the socket (main.rs, lines 83-150) *)

\* a byte that is not part of any UTF-8 sequence (0xFF)
InvalidByte == "0xFF"

\* str::from_utf8 on the bytes read
from_utf8_ok(raw) == \A i \in 1..Len(raw) : raw[i] # InvalidByte

\* process_message, lines 137-149, on what decode returned: the expect on
\* an Err, the panic on a message that is not an array, else the command
message_outcome(parsed_message, map, instantNow, overflow_checks, id) ==
    IF parsed_message.kind # "ok" THEN Outcome("panic", None, map, None, None)
    ELSE IF parsed_message.message.type # "Array" THEN Outcome("panic", None, map, None, None)
    ELSE process_message(parsed_message.message.data, map, instantNow, overflow_checks, id)

\* recieve_message, lines 107-114: the expect on from_utf8, then
\* process_message on the text
raw_outcome(raw, map, instantNow, overflow_checks, id) ==
    IF ~from_utf8_ok(raw) THEN Outcome("panic", None, map, None, None)
    ELSE message_outcome(decode(raw), map, instantNow, overflow_checks, id)

\* the bytes read_message returns: everything the client has written and
\* the server has not yet read
RECURSIVE Concat(_)
Concat(texts) == IF texts = <<>> THEN <<>> ELSE Head(texts) \o Concat(Tail(texts))

Unread(c) == Concat(SubSeq(sent[c], taken[c] + 1, Len(sent[c])))

\* what the clients of the byte-level specification write: a PING request,
\* a simple string (a message that is not an array), an inline command (a
\* first byte decode does not know), a request cut off inside its bulk
\* string, and a request with a byte that is not UTF-8
PingBytes == encode(Array(<<BulkString(S_PING)>>))
FramingRequests ==
    { PingBytes,
      <<"+", "P", "I", "N", "G", CR, LF>>,
      <<"P", "I", "N", "G", CR, LF>>,
      <<"*", "1", CR, LF, "$", "4", CR, LF, "P", "I">>,
      <<"*", "1", CR, LF, "$", "1", CR, LF, InvalidByte, CR, LF>> }

\* recieve_message, one turn of the loop on the bytes of the socket
HandleBytes(w) ==
    /\ wstate[w] = "busy"
    /\ serving[w] \in Conns
    /\ taken[serving[w]] < Len(sent[serving[w]])
    /\ taken' = [taken EXCEPT ![serving[w]] = Len(sent[serving[w]])]
    /\ decoded' = [decoded EXCEPT ![serving[w]] = @ + 1]
    /\ \E overflow_checks \in BOOLEAN :
         Served(w, serving[w],
                raw_outcome(Unread(serving[w]), db, now, overflow_checks,
                            Len(writes) + 1))
    /\ UNCHANGED <<listener, client_closed, sent, ran>>
    /\ UNCHANGED <<now, workerVars, historyVars, codecVars, mainVars, rdbVars, streamVars>>

NextFraming ==
    \/ \E c \in Conns : Accept(c)
    \/ \E w \in Workers : TakeJob(w)
    \/ \E c \in Conns : \E raw \in FramingRequests : ClientSend(c, raw)
    \/ \E c \in Conns : ClientClose(c)
    \/ \E w \in Workers : HandleBytes(w)
    \/ \E w \in Workers : HandleEof(w)

SpecFraming == InitServer /\ [][NextFraming]_vars

\* C12: a framing error on one connection ends only that connection: the
\* server keeps accepting, and no connection accepted before or after it is
\* left without a worker that will run its job
C12_FramingErrorIsLocal ==
    /\ listener = "running"
    /\ \A c \in Conns : conn[c] \notin {"lost", "refused"}
    /\ (channel # <<>>) => \E w \in Workers : wstate[w] # "dead"

----------------------------------------------------------------------------
(* The main thread and the replication handshake (main.rs, lines 25-61    *)
(* and 122-225)                                                            *)

\* the job of the handshake in the channel of the pool
HandshakeJob == NumConns + 1

\* OnceCell::set: Ok and the cell filled when it was empty, Err and the
\* cell as it was when it was full
OnceCell_set_overwrites(cell, v) == [ok |-> TRUE, cell |-> Some(v)]
OnceCell_set(cell, v) ==
    IF cell.some THEN [ok |-> FALSE, cell |-> cell]
    ELSE [ok |-> TRUE, cell |-> Some(v)]

\* DataStore::get_config: a clone of the configuration
get_config(cell) == cell.val

\* Args::get_db_config: the configuration of the command line
get_db_config(a) ==
    DbConfig_new(db_dir, db_filename,
                 IF a.role = "slave" THEN Some("master address") ELSE None)

\* the RDB file: absent or not decodable, or two entries, the first with
\* an expiry in the past
J == <<"j">>
RdbFiles ==
    { None,
      Some(<<[key |-> K, unit |-> LoadedUnit],
             [key |-> J, unit |-> DataUnit(<<"q">>, NoDeadline, 2)]>>) }

\* the DashMap after the inserts of entries, in order
MapOf(entries) ==
    [k \in {entries[i].key : i \in 1..Len(entries)} |->
        entries[CHOOSE i \in 1..Len(entries) :
                   /\ entries[i].key = k
                   /\ \A j \in (i + 1)..Len(entries) : entries[j].key # k].unit]

\* the log of the sets the load made
LoadLog(entries) ==
    [i \in 1..Len(entries) |-> LogEntry(entries[i].key, entries[i].unit, 0, None, 0)]

\* the main thread is at the named step
MainAt(step) == main_pc \in 1..Len(MainSteps) /\ MainSteps[main_pc] = step

\* the port REPLCONF listening-port announces
listening_port == 6379

S_listening_port == <<"l","i","s","t","e","n","i","n","g","-","p","o","r","t">>
S_capa == <<"c","a","p","a">>
S_psync2 == <<"p","s","y","n","c","2">>
S_FULLRESYNC == <<"F","U","L","L","R","E","S","Y","N","C">>

\* RedisMessageType::bulk_string_array: an array of bulk strings
bulk_string_array(words) == Array([i \in 1..Len(words) |-> BulkString(words[i])])

\* repl_handshake: the commands, in the order it writes them
handshake_command(i) ==
    IF i = 1 THEN bulk_string_array(<<S_PING>>)
    ELSE IF i = 2
    THEN bulk_string_array(<<S_REPLCONF, S_listening_port, fmt_unsigned(listening_port)>>)
    ELSE IF i = 3 THEN bulk_string_array(<<S_REPLCONF, S_capa, S_psync2>>)
    ELSE bulk_string_array(<<S_PSYNC, <<"?">>, <<"-", "1">>>>)

HandshakeLength == 4

\* str::starts_with
starts_with(s, prefix) ==
    Len(s) >= Len(prefix) /\ SubSeq(s, 1, Len(prefix)) = prefix

\* repl_handshake, lines 169, 191, 205 and 220: the test on the reply to
\* command i
reply_matches_any(i, val) == TRUE
reply_matches(i, val) ==
    IF i = 1 THEN val = S_PONG
    ELSE IF i \in {2, 3} THEN val = S_OK
    ELSE starts_with(val, S_FULLRESYNC)

\* read_simple_string_response, lines 126-133, on what decode returned:
\* the text of a simple string, None for the panics
simple_string_response(parsed_message) ==
    IF parsed_message.kind # "ok" THEN None
    ELSE IF parsed_message.message.type # "SimpleString" THEN None
    ELSE Some(parsed_message.message.data)

\* read_simple_string_response on the bytes read_message returned
read_simple_string_response(raw) ==
    IF ~from_utf8_ok(raw) THEN None ELSE simple_string_response(decode(raw))

\* what the master writes back
MasterReplies ==
    { encode(SimpleString(S_PONG)),
      encode(SimpleString(S_OK)),
      encode(SimpleString(S_FULLRESYNC \o <<" ", "r", " ", "0">>)),
      <<"-", "E", "R", "R", CR, LF>>,
      encode(BulkString(S_OK)) }

\* the requests the clients send while the server starts and follows
MainRequests ==
    { <<BulkString(S_PING)>>,
      <<BulkString(S_CONFIG), BulkString(S_GET), BulkString(S_DIR)>>,
      <<BulkString(S_CONFIG), BulkString(S_SET), BulkString(S_DIR), BulkString(<<"x">>)>> }

\* the clients that connect while the server starts and follows
MainConns == 1..NumMainConns

InitMain ==
    /\ StoreAtRest
    /\ wstate = [w \in Workers |-> "none"]
    /\ serving = [w \in Workers |-> 0]
    /\ channel = <<>>
    /\ listener = "unbound"
    /\ conn = [c \in Conns |-> "none"]
    /\ client_closed = [c \in Conns |-> FALSE]
    /\ sent = [c \in Conns |-> <<>>]
    /\ taken = [c \in Conns |-> 0]
    /\ decoded = [c \in Conns |-> 0]
    /\ replies = [c \in Conns |-> <<>>]
    /\ ran = [c \in Conns |-> <<>>]
    /\ CodecInit
    /\ RdbInit
    /\ StreamInit
    /\ cli_args \in [threads : 1..NumWorkers, role : {"master", "slave"}]
    /\ rdb_file \in RdbFiles
    /\ main_pc = 1
    /\ dash_map = <<>>
    /\ config = None
    /\ hs = "none"
    /\ master_in = <<>>
    /\ master_out = <<>>
    /\ master_read = <<>>

handshakeVars == <<hs, master_in, master_out, master_read>>

\* Database::to_dashmap: one entry of the file is inserted into the map
\* that DataStore::init is building
LoadEntry ==
    /\ MainAt("init_db")
    /\ rdb_file.some
    /\ Len(dash_map) < Len(rdb_file.val)
    /\ dash_map' = Append(dash_map, rdb_file.val[Len(dash_map) + 1])
    /\ UNCHANGED <<cli_args, rdb_file, main_pc, config, handshakeVars>>
    /\ UNCHANGED <<storeVars, workerVars, historyVars, serverVars, codecVars, rdbVars, streamVars>>

\* init_db, lines 21-23, on what OnceCell::set returned: the store is
\* published, or the expect panics the main thread
InitDbSet(set_result) ==
    IF set_result.ok
    THEN /\ config' = set_result.cell
         /\ db' = MapOf(dash_map)
         /\ writes' = LoadLog(dash_map)
         /\ main_pc' = main_pc + 1
    ELSE /\ main_pc' = 0
         /\ UNCHANGED <<config, db, writes>>

\* init_db: DataStore::init has the map (empty when the file could not be
\* loaded) and DB.set publishes it with the configuration
InitDb ==
    /\ MainAt("init_db")
    /\ rdb_file.some => Len(dash_map) = Len(rdb_file.val)
    /\ InitDbSet(OnceCell_set(config, get_db_config(cli_args)))
    /\ UNCHANGED <<cli_args, rdb_file, dash_map, handshakeVars>>
    /\ UNCHANGED <<now, workerVars, historyVars, serverVars, codecVars, rdbVars, streamVars>>

\* ThreadPool::new(args.threads): the workers are spawned
NewPool ==
    /\ MainAt("pool")
    /\ wstate' = [w \in Workers |-> IF w <= cli_args.threads THEN "idle" ELSE "none"]
    /\ main_pc' = main_pc + 1
    /\ UNCHANGED <<cli_args, rdb_file, dash_map, config, handshakeVars>>
    /\ UNCHANGED <<serving, channel, listener, conn, client_closed, sent, taken,
                   decoded, replies, ran>>
    /\ UNCHANGED <<storeVars, workerVars, historyVars, codecVars, rdbVars, streamVars>>

\* main, lines 32-37: a follower submits the handshake job; get_db()
\* panics when the store was not initialised
SubmitHandshake ==
    /\ MainAt("role")
    /\ IF ~config.some
       THEN /\ main_pc' = 0
            /\ UNCHANGED <<channel, hs>>
       ELSE /\ main_pc' = main_pc + 1
            /\ IF get_config(config).replication_data.role = "slave"
               THEN /\ channel' = Append(channel, HandshakeJob)
                    /\ hs' = "queued"
               ELSE UNCHANGED <<channel, hs>>
    /\ UNCHANGED <<cli_args, rdb_file, dash_map, config, master_in, master_out,
                   master_read>>
    /\ UNCHANGED <<wstate, serving, listener, conn, client_closed, sent, taken,
                   decoded, replies, ran>>
    /\ UNCHANGED <<storeVars, workerVars, historyVars, codecVars, rdbVars, streamVars>>

\* main, lines 45-51: TcpListener::bind
Bind ==
    /\ MainAt("bind")
    /\ listener' = "running"
    /\ main_pc' = main_pc + 1
    /\ UNCHANGED <<cli_args, rdb_file, dash_map, config, handshakeVars>>
    /\ UNCHANGED <<wstate, serving, channel, conn, client_closed, sent, taken,
                   decoded, replies, ran>>
    /\ UNCHANGED <<storeVars, workerVars, historyVars, codecVars, rdbVars, streamVars>>

\* Worker::new, line 22: a worker receives the handshake job
TakeHandshake(w) ==
    /\ wstate[w] = "idle"
    /\ channel # <<>>
    /\ Head(channel) = HandshakeJob
    /\ wstate' = [wstate EXCEPT ![w] = "busy"]
    /\ serving' = [serving EXCEPT ![w] = HandshakeJob]
    /\ channel' = Tail(channel)
    /\ hs' = "connect"
    /\ UNCHANGED <<cli_args, rdb_file, main_pc, dash_map, config, master_in,
                   master_out, master_read>>
    /\ UNCHANGED <<listener, conn, client_closed, sent, taken, decoded, replies, ran>>
    /\ UNCHANGED <<storeVars, workerVars, historyVars, codecVars, rdbVars, streamVars>>

\* the handshake job panics: its worker thread ends
HsPanic(w) ==
    /\ hs' = "failed"
    /\ WorkerPanics(w, HandshakeJob, [wstate EXCEPT ![w] = "dead"])

\* connect_slave_to_master: TcpStream::connect succeeds, or the expect
\* panics
HsConnect(w) ==
    /\ hs = "connect"
    /\ wstate[w] = "busy"
    /\ serving[w] = HandshakeJob
    /\ \/ /\ hs' = "send"
          /\ UNCHANGED <<wstate, serving, conn, channel, replies>>
       \/ HsPanic(w)
    /\ UNCHANGED <<cli_args, rdb_file, main_pc, dash_map, config, master_in,
                   master_out, master_read>>
    /\ UNCHANGED <<listener, client_closed, sent, taken, decoded, ran>>
    /\ UNCHANGED <<storeVars, workerVars, historyVars, codecVars, rdbVars, streamVars>>

\* repl_handshake: write_all of the next command
HsSend(w) ==
    /\ hs = "send"
    /\ wstate[w] = "busy"
    /\ serving[w] = HandshakeJob
    /\ master_in' = Append(master_in, encode(handshake_command(Len(master_in) + 1)))
    /\ hs' = "wait"
    /\ UNCHANGED <<cli_args, rdb_file, main_pc, dash_map, config, master_out,
                   master_read>>
    /\ UNCHANGED <<serverVars, storeVars, workerVars, historyVars, codecVars, rdbVars, streamVars>>

\* the master answers the command it has not answered yet
MasterReply(text) ==
    /\ Len(master_read) + Len(master_out) < Len(master_in)
    /\ hs = "wait"
    /\ master_out' = Append(master_out, text)
    /\ UNCHANGED <<cli_args, rdb_file, main_pc, dash_map, config, hs, master_in,
                   master_read>>
    /\ UNCHANGED <<serverVars, storeVars, workerVars, historyVars, codecVars, rdbVars, streamVars>>

\* repl_handshake after read_simple_string_response: the reply is tested;
\* a match leads to the next command or, after the last, to the end of the
\* job; anything else panics
HsAfterRead(w, val) ==
    IF ~val.some THEN HsPanic(w) /\ UNCHANGED master_read
    ELSE IF ~reply_matches(Len(master_in), val.val)
    THEN HsPanic(w) /\ UNCHANGED master_read
    ELSE /\ master_read' = Append(master_read, val.val)
         /\ IF Len(master_in) = HandshakeLength
            THEN /\ hs' = "done"
                 /\ wstate' = [wstate EXCEPT ![w] = "idle"]
                 /\ serving' = [serving EXCEPT ![w] = 0]
            ELSE /\ hs' = "send"
                 /\ UNCHANGED <<wstate, serving>>
         /\ UNCHANGED <<conn, channel, replies>>

\* read_simple_string_response: the bytes the master wrote are read
HsRead(w) ==
    /\ hs = "wait"
    /\ wstate[w] = "busy"
    /\ serving[w] = HandshakeJob
    /\ master_out # <<>>
    /\ master_out' = <<>>
    /\ HsAfterRead(w, read_simple_string_response(Concat(master_out)))
    /\ UNCHANGED <<cli_args, rdb_file, main_pc, dash_map, config, master_in>>
    /\ UNCHANGED <<listener, client_closed, sent, taken, decoded, ran>>
    /\ UNCHANGED <<storeVars, workerVars, historyVars, codecVars, rdbVars, streamVars>>

NextMain ==
    \/ LoadEntry
    \/ InitDb
    \/ NewPool
    \/ SubmitHandshake
    \/ Bind
    \/ \E w \in Workers : TakeHandshake(w)
    \/ \E w \in Workers : HsConnect(w)
    \/ \E w \in Workers : HsSend(w)
    \/ \E text \in MasterReplies : MasterReply(text)
    \/ \E w \in Workers : HsRead(w)
    \/ \E c \in MainConns : Accept(c)
    \/ \E w \in Workers : TakeJob(w)
    \/ \E c \in MainConns : \E items \in MainRequests : ClientSend(c, items)
    \/ \E c \in MainConns : ClientClose(c)
    \/ \E w \in Workers : HandleRead(w)
    \/ \E w \in Workers : HandleEof(w)

SpecMain == InitMain /\ [][NextMain]_vars

----------------------------------------------------------------------------
(* Start-up, handshake and configuration *)

\* the words of the four commands of the handshake
ExpectedWords ==
    << <<S_PING>>,
       <<S_REPLCONF, S_listening_port, <<"6", "3", "7", "9">>>>,
       <<S_REPLCONF, S_capa, S_psync2>>,
       <<S_PSYNC, <<"?">>, <<"-", "1">>>> >>

\* the RESP array of bulk strings that carries the words
WireOf(words) == encode(Array([i \in 1..Len(words) |-> BulkString(words[i])]))

C15_LoadBeforeServing ==
    /\ (\E w \in Workers : wstate[w] # "none") => config.some
    /\ hs # "none" => config.some
    /\ listener # "unbound" => config.some
    /\ (\E c \in Conns : conn[c] # "none") => config.some
    /\ ~config.some => db = <<>>
    /\ (config.some /\ rdb_file.some) =>
         /\ Len(dash_map) = Len(rdb_file.val)
         /\ \A i \in 1..Len(rdb_file.val) : rdb_file.val[i].key \in DOMAIN db

C15_Witness ==
    /\ rdb_file.some
    /\ \E c \in Conns : replies[c] # <<>>

\* C16: after init_db the configuration get_config returns is the one of
\* the command line in every state, whatever commands have run, and a
\* second init_db does not succeed
C16_ConfigImmutable ==
    config.some =>
        /\ get_config(config) = get_db_config(cli_args)
        /\ \A a \in [threads : 1..NumWorkers, role : {"master", "slave"}] :
             /\ ~OnceCell_set(config, get_db_config(a)).ok
             /\ OnceCell_set(config, get_db_config(a)).cell = config

C16_Witness ==
    /\ config.some
    /\ cli_args.role = "master"
    /\ \E w \in Workers : wstate[w] = "dead"
    /\ \E c \in Conns : \E i \in 1..Len(replies[c]) : replies[c][i].msg.type = "Array"

----------------------------------------------------------------------------
(* The options of SET: one client after another sends SET commands whose  *)
(* option lists combine GET, NX, XX and the expiry options                *)

\* the workers that take the requests of this specification
NumOptionWorkers == 1
OptionWorkers == 1..NumOptionWorkers

NonNumeric == <<"x">>

\* an option without an argument, and an expiry option with its argument
Flag(name) == <<BulkString(name)>>
Timed(name, number) == <<BulkString(name), BulkString(number)>>

\* the elements of a request after key and value, for a list of options
RECURSIVE Flatten(_)
Flatten(options) ==
    IF options = <<>> THEN <<>> ELSE Head(options) \o Flatten(Tail(options))

\* option lists with at most one expiry option, at most one of NX / XX,
\* and numeric arguments
ValidOptionLists ==
    { <<Flag(S_GET)>>,
      <<Flag(S_NX), Timed(S_PX, Digits_1)>>,
      <<Flag(S_GET), Flag(S_XX)>>,
      <<Timed(S_EX, Digits_1), Flag(S_GET), Flag(S_NX)>>,
      <<Flag(S_KEEPTTL)>>,
      <<Flag(S_KEEPTTL), Flag(S_NX)>> }

\* option lists with NX and XX, with more than one expiry option, or with
\* an expiry argument that is not a number
ConflictingOptionLists ==
    { <<Flag(S_NX), Flag(S_XX)>>,
      <<Flag(S_XX), Flag(S_NX)>>,
      <<Timed(S_EX, Digits_1), Timed(S_PX, Digits_1)>>,
      <<Timed(S_PX, Digits_1), Timed(S_EX, Digits_1)>>,
      <<Timed(S_EXAT, Digits_1), Timed(S_PX, Digits_1)>>,
      <<Timed(S_EX, Digits_1), Flag(S_KEEPTTL)>>,
      <<Timed(S_EX, NonNumeric)>> }

OptionRequests ==
    { <<BulkString(S_GET), BulkString(K)>>,
      SetRequest(<<"a">>, <<>>),
      SetRequest(<<"a">>, Timed(S_PX, Digits_1)),
      SetRequest(<<"b">>, Timed(S_KEEPTTL, Digits_1)) }
    \cup { SetRequest(<<"b">>, Flatten(options)) :
             options \in ValidOptionLists \cup ConflictingOptionLists }

NextOptions ==
    \/ Tick
    \/ \E w \in OptionWorkers : \E items \in OptionRequests : ReceiveRequest(w, items)
    \/ \E w \in OptionWorkers : GetRead(w)
    \/ \E w \in OptionWorkers : GetCheck(w)
    \/ \E w \in OptionWorkers : GetRemove(w)
    \/ \E w \in OptionWorkers : GetReply(w)
    \/ \E w \in OptionWorkers : SetExecute(w)
    \/ \E w \in OptionWorkers : WriteResponse(w)

SpecOptions == StoreInit /\ [][NextOptions]_vars

\* worker w runs a SET whose options include the option called name
HasOption(w, name) ==
    InSet(w) /\ \E i \in 1..Len(SetOptions(w)) : SetOptions(w)[i] = BulkString(name)

\* C17: a SET with the GET option that performed its write replies with the
\* previous live value of the key as a BulkString, or with NullBulkString
\* when the key had no live entry, and never with OK; a SET without the
\* GET option that performed its write replies SimpleString OK
C17_GetReturnsOldValue ==
    \A w \in Workers :
        (pc[w] = "write" /\ InSet(w) /\ wrote[w] # 0 /\ Quiet(w)) =>
            IF HasOption(w, S_GET)
            THEN IF found[w].some
                 THEN response[w].val = BulkString(found[w].val.value)
                 ELSE response[w].val = NullBulkString
            ELSE response[w].val = SimpleString(S_OK)

\* worker w runs SET k v KEEPTTL, the option without a number after it
IsKeepTtl(w) == InSet(w) /\ SetOptions(w) = Flag(S_KEEPTTL)

\* C18: SET k v KEEPTTL, without a number after the option, replies OK and
\* stores v in one write, with the deadline of the live entry the key had
\* just before, or without expiry when the key had no live entry
C18_KeepTtlInherits ==
    \A w \in Workers :
        (IsKeepTtl(w) /\ pc[w] \in {"write", "dead"} /\ Quiet(w)) =>
            /\ pc[w] = "write"
            /\ response[w].val = SimpleString(S_OK)
            /\ wrote[w] # 0
            /\ writes[wrote[w]].unit.value = as_string(command[w].val.args[2]).val
            /\ writes[wrote[w]].unit.expiry_deadline =
                 IF found[w].some THEN found[w].val.expiry_deadline ELSE NoDeadline

\* worker w runs a SET whose options are one of the conflicting lists
IsConflicting(w) ==
    InSet(w) /\ \E options \in ConflictingOptionLists : SetOptions(w) = Flatten(options)

\* the orders in which a list of options can be written
Orders(options) ==
    { [i \in 1..Len(options) |-> options[f[i]]] :
        f \in { g \in [1..Len(options) -> 1..Len(options)] :
                  \A i, j \in 1..Len(options) : i # j => g[i] # g[j] } }

\* the arguments of SET k b with a list of options
ArgsOf(options) == <<BulkString(K), BulkString(<<"b">>)>> \o Flatten(options)

\* C19: a SET with NX and XX, with more than one expiry option or with a
\* non-numeric expiry argument replies with an Error and writes nothing,
\* in whatever order the options come; and every order of a valid list of
\* options gives the same reply and the same stored entry
C19_OptionOrder ==
    \A w \in Workers :
        /\ (IsConflicting(w) /\ pc[w] \in {"write", "dead"}) =>
              /\ pc[w] = "write"
              /\ response[w].val.type = "Error"
              /\ wrote[w] = 0
        /\ (InSet(w) /\ pc[w] = "get_ret") =>
              \A options \in ValidOptionLists : \A order \in Orders(options) :
                \A overflow_checks \in BOOLEAN :
                  set_execute(ArgsOf(order), found[w], now, overflow_checks,
                              Len(writes) + 1)
                    = set_execute(ArgsOf(options), found[w], now, overflow_checks,
                                  Len(writes) + 1)

----------------------------------------------------------------------------
(* Decoding a message that is followed by more bytes in the buffer        *)

\* bytes that follow the message in the buffer: the start of another
\* message, a whole one, a line end
Trailers ==
    { <<"a">>, <<"+", "a", CR, LF>>, <<CR, LF>>, <<"*", "1">> }

\* the client wrote trailing after the encoded message
AppendTrailing(trailing) ==
    /\ wire # None
    /\ result = None
    /\ wire.val = encode(original.val)
    /\ wire' = Some(wire.val \o trailing)
    /\ UNCHANGED <<original, result>>
    /\ UNCHANGED <<storeVars, workerVars, historyVars, serverVars, mainVars, rdbVars, streamVars>>

NextTrailing ==
    \/ Encode
    \/ \E trailing \in Trailers : AppendTrailing(trailing)
    \/ Decode

SpecTrailing == InitCodec /\ [][NextTrailing]_vars

\* C21: decoding encode(m) followed by any trailing bytes gives m and a
\* consumed count equal to the length of encode(m); for an array this
\* means that each of its declared elements was decoded from the first
\* byte after the element before it
C21_TrailingBytes ==
    result # None =>
        /\ result.val.kind = "ok"
        /\ result.val.message = original.val
        /\ result.val.consumed = Len(encode(original.val))

----------------------------------------------------------------------------
(* The RDB file decoder (db_file.rs). A byte is a number in 0..255 and a  *)
(* buffer is a sequence of bytes.                                         *)

\* u32::from_be_bytes read least significant byte first
u32_from_be_bytes_reversed(bytes) ==
    ((bytes[4] * 256 + bytes[3]) * 256 + bytes[2]) * 256 + bytes[1]
u32_from_be_bytes(bytes) ==
    ((bytes[1] * 256 + bytes[2]) * 256 + bytes[3]) * 256 + bytes[4]
u32_from_le_bytes(bytes) ==
    ((bytes[4] * 256 + bytes[3]) * 256 + bytes[2]) * 256 + bytes[1]
u16_from_le_bytes(bytes) == bytes[2] * 256 + bytes[1]

\* what parse_length_encoding returns: Some((value, bytes parsed)), None,
\* or the panic of unimplemented!
Length(val, bytes_parsed) ==
    [kind |-> "some", val |-> val, bytes_parsed |-> bytes_parsed]
LengthNone == [kind |-> "none"]
LengthPanic == [kind |-> "panic"]

\* parse_length_encoding, lines 463-477: the integer of len bytes after the
\* first byte
string_encoding(buf, len) ==
    IF Len(buf) < 1 + len THEN LengthNone
    ELSE Length(CASE len = 1 -> buf[2]
                  [] len = 2 -> u16_from_le_bytes(SubSeq(buf, 2, 3))
                  [] len = 4 -> u32_from_le_bytes(SubSeq(buf, 2, 5)),
                1 + len)

\* parse_length_encoding, lines 453-459: b0 >> 6 is 0b11
special_encoding(buf, b0) ==
    CASE b0 % 4 = 0 -> string_encoding(buf, 1)
      [] b0 % 4 = 1 -> string_encoding(buf, 2)
      [] b0 % 4 = 2 -> string_encoding(buf, 4)
      [] b0 % 4 = 3 -> LengthPanic

\* parse_length_encoding, lines 431-461: the match on b0 >> 6
length_of(buf, b0) ==
    CASE b0 \div 64 = 0 -> Length(b0 % 64, 1)
      [] b0 \div 64 = 1 -> IF Len(buf) < 2 THEN LengthNone
                           ELSE Length((b0 % 64) * 256 + buf[2], 2)
      [] b0 \div 64 = 2 -> IF Len(buf) < 5 THEN LengthNone
                           ELSE Length(u32_from_be_bytes(SubSeq(buf, 2, 5)), 5)
      [] b0 \div 64 = 3 -> special_encoding(buf, b0)

parse_length_encoding(buf) ==
    IF buf = <<>> THEN LengthNone ELSE length_of(buf, buf[1])

----------------------------------------------------------------------------
(* parse_length_encoding on buffers of every form *)

\* the first bytes: each value of the top two bits, with several low bits
FirstBytes == {0, 15, 63, 64, 66, 127, 128, 191, 192, 193, 194, 195, 196, 255}

\* the bytes after the first one
TailBytes == {0, 1, 66, 127}
MaxTail == 4

\* lengths and their encoding in the smallest normal form that fits
LengthValues == {0, 1, 63, 64, 700, 16383, 16384, 17000, 16777216, 2147483647}
NormalForm(n) ==
    IF n < 64 THEN <<n>>
    ELSE IF n < 16384 THEN <<64 + n \div 256, n % 256>>
    ELSE <<128, n \div 16777216, (n \div 65536) % 256, (n \div 256) % 256, n % 256>>

LengthBuffers ==
    {<<>>}
    \cup { <<b0>> \o t : b0 \in FirstBytes,
                         t \in UNION { [1..n -> TailBytes] : n \in 0..MaxTail } }
    \cup { NormalForm(n) : n \in LengthValues }

InitLength ==
    /\ ServerAtRest
    /\ CodecInit
    /\ raw_data \in { Some(buf) : buf \in LengthBuffers }
    /\ rdb_result = None
    /\ StreamInit

ParseLength ==
    /\ rdb_result = None
    /\ rdb_result' = Some(parse_length_encoding(raw_data.val))
    /\ UNCHANGED raw_data
    /\ UNCHANGED <<storeVars, workerVars, historyVars, serverVars, codecVars, mainVars, streamVars>>

NextLength == ParseLength

SpecLength == InitLength /\ [][NextLength]_vars

\* the bytes a length needs, by its first byte
BytesNeeded(b0) ==
    CASE b0 \div 64 = 0 -> 1
      [] b0 \div 64 = 1 -> 2
      [] b0 \div 64 = 2 -> 5
      [] b0 \div 64 = 3 /\ b0 % 4 = 0 -> 2
      [] b0 \div 64 = 3 /\ b0 % 4 = 1 -> 3
      [] b0 \div 64 = 3 /\ b0 % 4 = 2 -> 5

\* the value of a length whose bytes are all in the buffer
LengthValue(buf, b0) ==
    CASE b0 \div 64 = 0 -> b0 % 64
      [] b0 \div 64 = 1 -> (b0 % 64) * 256 + buf[2]
      [] b0 \div 64 = 2 -> buf[2] * 16777216 + buf[3] * 65536 + buf[4] * 256 + buf[5]
      [] b0 \div 64 = 3 /\ b0 % 4 = 0 -> buf[2]
      [] b0 \div 64 = 3 /\ b0 % 4 = 1 -> buf[2] + buf[3] * 256
      [] b0 \div 64 = 3 /\ b0 % 4 = 2 ->
            buf[2] + buf[3] * 256 + buf[4] * 65536 + buf[5] * 16777216

IsLzf(b0) == b0 \div 64 = 3 /\ b0 % 4 = 3

\* C22: parse_length_encoding returns the value and the number of bytes of
\* each form of length (6 bits, 14 bits, 4 bytes big-endian, integers of
\* 1, 2 and 4 bytes little-endian), returns nothing when the buffer is
\* shorter than the form needs, and gives back every length written in
\* its smallest normal form
C22_LengthEncoding ==
    rdb_result # None =>
        /\ raw_data.val = <<>> => rdb_result.val = LengthNone
        /\ (raw_data.val # <<>> /\ ~IsLzf(raw_data.val[1])) =>
              rdb_result.val =
                  IF Len(raw_data.val) < BytesNeeded(raw_data.val[1])
                  THEN LengthNone
                  ELSE Length(LengthValue(raw_data.val, raw_data.val[1]),
                              BytesNeeded(raw_data.val[1]))
        /\ \A n \in LengthValues :
              raw_data.val = NormalForm(n) => rdb_result.val = Length(n, Len(raw_data.val))

C22_Witness ==
    /\ rdb_result # None
    /\ raw_data.val = NormalForm(17000)
    /\ rdb_result.val = Length(17000, 5)

----------------------------------------------------------------------------
(* The sections of the RDB file *)

\* a decoder returned Ok((val, parsed)), returned Err, or panicked
RdbOk(val, parsed) == [kind |-> "ok", val |-> val, parsed |-> parsed]
RdbErr == [kind |-> "err"]
RdbPanic == [kind |-> "panic"]

\* the character of an ASCII byte, for the bytes the files of the model hold
char_of(byte) ==
    CASE byte \in 97..122 -> LowerChars[byte - 96]
      [] byte \in 65..90 -> UpperChars[byte - 64]
      [] byte \in 48..57 -> DigitChars[byte - 47]
      [] byte = 45 -> "-"
      [] byte = 46 -> "."
      [] OTHER -> "?"

\* str::from_utf8: None for a byte that is no ASCII character (the files
\* of the model hold no multi-byte character)
str_from_utf8(bytes) ==
    IF \E i \in 1..Len(bytes) : bytes[i] >= 128 THEN None
    ELSE Some([i \in 1..Len(bytes) |-> char_of(bytes[i])])

S_redis_bits == <<"r","e","d","i","s","-","b","i","t","s">>
S_no_parse == <<"n","o"," ","p","a","r","s","e">>

\* a string with its length before it, read at index: length is what
\* parse_length_encoding returned there, on_none what the caller makes of
\* None (Err with ok_or, a panic with unwrap)
read_string(s, index, length, on_none) ==
    IF length.kind = "panic" THEN RdbPanic
    ELSE IF length.kind = "none" THEN on_none
    ELSE IF index + length.bytes_parsed + length.val > Len(s) THEN RdbErr
    ELSE IF ~str_from_utf8(SubSeq(s, index + length.bytes_parsed + 1,
                                  index + length.bytes_parsed + length.val)).some
         THEN RdbErr
    ELSE RdbOk(str_from_utf8(SubSeq(s, index + length.bytes_parsed + 1,
                                    index + length.bytes_parsed + length.val)).val,
               index + length.bytes_parsed + length.val)

\* MetadataSubSection::decode, lines 166-188: the value was read
metadata_pair(key_string, value_read) ==
    IF value_read.kind # "ok" THEN value_read
    ELSE RdbOk([key |-> key_string, value |-> value_read.val], value_read.parsed)

\* MetadataSubSection::decode, lines 164-190: the key was read; the value
\* of redis-bits is taken to be two bytes long and is not parsed
metadata_value(s, key_read) ==
    IF key_read.kind # "ok" THEN key_read
    ELSE IF key_read.val = S_redis_bits
         THEN RdbOk([key |-> key_read.val, value |-> S_no_parse], key_read.parsed + 2)
    ELSE metadata_pair(key_read.val,
                       read_string(s, key_read.parsed,
                                   parse_length_encoding(SliceFrom(s, key_read.parsed)),
                                   RdbErr))

MetadataSubSection_decode(s) ==
    IF s = <<>> THEN RdbPanic
    ELSE IF s[1] # 250 THEN RdbErr
    ELSE metadata_value(s, read_string(s, 1, parse_length_encoding(SliceFrom(s, 1)),
                                       RdbErr))

RECURSIVE metadata_loop(_, _, _)

\* MetadataSection::decode, lines 127-130: a sub-section was decoded
metadata_next(s, index, sections, subsection) ==
    IF subsection.kind # "ok" THEN subsection
    ELSE metadata_loop(s, index + subsection.parsed, Append(sections, subsection.val))

\* MetadataSection::decode, lines 119-137: the loop while s[index] is 0xFA
metadata_loop(s, index, sections) ==
    IF index >= Len(s) THEN RdbErr
    ELSE IF s[index + 1] # 250 THEN RdbOk(sections, index)
    ELSE metadata_next(s, index, sections,
                       MetadataSubSection_decode(SliceFrom(s, index)))

MetadataSection_decode(s) == metadata_loop(s, 0, <<>>)

----------------------------------------------------------------------------
(* MetadataSection::decode on metadata sections of every form *)

\* the bytes of the keys redis-bits and ab
B_redis_bits == <<114, 101, 100, 105, 115, 45, 98, 105, 116, 115>>
B_ab == <<97, 98>>

\* a string with its length before it
Prefixed(bytes) == <<Len(bytes)>> \o bytes

\* the values of a metadata entry: strings with their length, and integers
\* of 1, 2 and 4 bytes
MetadataValues ==
    { Prefixed(<<>>), Prefixed(<<55, 46, 50>>),
      <<192, 64>>, <<193, 57, 48>>, <<194, 1, 0, 0, 0>> }

\* the sub-sections 0xFA key value
MetadataEntries ==
    { <<250>> \o Prefixed(k) \o v : k \in {B_redis_bits, B_ab}, v \in MetadataValues }

MaxEntries == 2

\* what follows the metadata section: a database marker, the end of file
AfterMetadata == { <<254, 0, 251, 0, 0, 255>>, <<255>> }

RECURSIVE Join(_)
Join(parts) == IF parts = <<>> THEN <<>> ELSE Head(parts) \o Join(Tail(parts))

MetadataLists == UNION { [1..n -> MetadataEntries] : n \in 0..MaxEntries }

InitMetadata ==
    /\ ServerAtRest
    /\ CodecInit
    /\ raw_data \in { Some(Join(entries) \o after) :
                        entries \in MetadataLists, after \in AfterMetadata }
    /\ rdb_result = None
    /\ StreamInit

DecodeMetadata ==
    /\ rdb_result = None
    /\ rdb_result' = Some(MetadataSection_decode(raw_data.val))
    /\ UNCHANGED raw_data
    /\ UNCHANGED <<storeVars, workerVars, historyVars, serverVars, codecVars, mainVars, streamVars>>

NextMetadata == DecodeMetadata

SpecMetadata == InitMetadata /\ [][NextMetadata]_vars

\* C30: the decoder of the metadata section consumes exactly the bytes of
\* its sub-sections, whether a value is a string with its length or an
\* integer of 1, 2 or 4 bytes, under the key redis-bits and under any
\* other key, and stops at the first byte that is not 0xFA
C30_MetadataConsumed ==
    rdb_result # None =>
        \A entries \in MetadataLists : \A after \in AfterMetadata :
            raw_data.val = Join(entries) \o after =>
                /\ rdb_result.val.kind = "ok"
                /\ rdb_result.val.parsed = Len(Join(entries))
                /\ Len(rdb_result.val.val) = Len(entries)

----------------------------------------------------------------------------
(* The database section and the whole file *)

\* u64::from_le_bytes
RECURSIVE u64_from_le_bytes(_)
u64_from_le_bytes(bytes) ==
    IF bytes = <<>> THEN 0 ELSE Head(bytes) + 256 * u64_from_le_bytes(Tail(bytes))

\* KeyValueDataUnit::decode, lines 345-365: the expiry before the record,
\* as a Unix time in ms, and the index of the value-type byte
expire_timestamp(data) ==
    IF data = <<>> THEN RdbErr
    ELSE IF data[1] = 252
         THEN IF Len(data) < 9 THEN RdbErr
              ELSE RdbOk(Some(u64_from_le_bytes(SubSeq(data, 2, 9))), 9)
    ELSE IF data[1] = 253
         THEN IF Len(data) < 5 THEN RdbErr
              ELSE RdbOk(Some(u32_from_le_bytes(SubSeq(data, 2, 5)) * MillisPerSec), 5)
    ELSE RdbOk(None, 0)

\* KeyValueDataUnit::decode, lines 381-397: the value was read
key_value_unit(expiry, key_string, value_read) ==
    IF value_read.kind # "ok" THEN value_read
    ELSE RdbOk([key |-> key_string, value |-> value_read.val, expiry |-> expiry],
               value_read.parsed)

\* KeyValueDataUnit::decode, lines 370-397: the key was read
key_value_pair(data, expiry, key_read) ==
    IF key_read.kind # "ok" THEN key_read
    ELSE key_value_unit(expiry, key_read.val,
                        read_string(data, key_read.parsed,
                                    parse_length_encoding(SliceFrom(data, key_read.parsed)),
                                    RdbPanic))

\* KeyValueDataUnit::decode, lines 367-399: the value-type byte and the
\* record; a type other than 0x00 is unimplemented!
key_value_after_expiry(data, expiry) ==
    IF expiry.kind # "ok" THEN expiry
    ELSE IF expiry.parsed >= Len(data) THEN RdbPanic
    ELSE IF data[expiry.parsed + 1] # 0 THEN RdbPanic
    ELSE key_value_pair(data, expiry.val,
                        read_string(data, expiry.parsed + 1,
                                    parse_length_encoding(SliceFrom(data, expiry.parsed + 1)),
                                    RdbPanic))

KeyValueDataUnit_decode(data) == key_value_after_expiry(data, expire_timestamp(data))

\* DatabaseSubSectionHeader::decode, lines 317-337: the three lengths
header_of(index, hash_table_size, expiry_hash_table_size) ==
    IF expiry_hash_table_size.kind = "panic" THEN RdbPanic
    ELSE IF expiry_hash_table_size.kind = "none" THEN RdbErr
    ELSE RdbOk([index |-> index.val,
                hash_table_size |-> hash_table_size.val,
                expiry_hash_table_size |-> expiry_hash_table_size.val],
               index.bytes_parsed + 2 + hash_table_size.bytes_parsed
                   + expiry_hash_table_size.bytes_parsed)

\* DatabaseSubSectionHeader::decode, lines 303-315: the hash table size
header_after_hash(bytes, index, hash_table_size) ==
    IF hash_table_size.kind = "panic" THEN RdbPanic
    ELSE IF hash_table_size.kind = "none" THEN RdbErr
    ELSE header_of(index, hash_table_size,
                   parse_length_encoding(
                       SliceFrom(bytes, index.bytes_parsed + 2
                                            + hash_table_size.bytes_parsed)))

\* DatabaseSubSectionHeader::decode, lines 288-305: the index and 0xFB
header_after_index(bytes, index) ==
    IF index.kind = "panic" THEN RdbPanic
    ELSE IF index.kind = "none" THEN RdbErr
    ELSE IF index.bytes_parsed + 1 >= Len(bytes) THEN RdbErr
    ELSE IF bytes[index.bytes_parsed + 2] # 251 THEN RdbErr
    ELSE header_after_hash(bytes, index,
                           parse_length_encoding(SliceFrom(bytes, index.bytes_parsed + 2)))

DatabaseSubSectionHeader_decode(bytes) ==
    IF bytes = <<>> THEN RdbErr
    ELSE IF bytes[1] # 254 THEN RdbErr
    ELSE header_after_index(bytes, parse_length_encoding(SliceFrom(bytes, 1)))

RECURSIVE units_loop(_, _, _, _, _)

\* DatabaseSubSection::decode, lines 252-259: a record was decoded
units_next(raw, header, remaining, key_value_data_units, bytes_parsed, data_unit) ==
    IF data_unit.kind # "ok" THEN data_unit
    ELSE units_loop(raw, header, remaining - 1,
                    Append(key_value_data_units, data_unit.val),
                    bytes_parsed + data_unit.parsed)

\* DatabaseSubSection::decode, lines 251-268: hash_table_size records
units_loop(raw, header, remaining, key_value_data_units, bytes_parsed) ==
    IF remaining = 0
    THEN RdbOk([header |-> header, key_value_data_units |-> key_value_data_units],
               bytes_parsed)
    ELSE units_next(raw, header, remaining, key_value_data_units, bytes_parsed,
                    KeyValueDataUnit_decode(SliceFrom(raw, bytes_parsed)))

\* DatabaseSubSection::decode, line 246: the header was decoded
subsection_after_header(raw, header) ==
    IF header.kind # "ok" THEN header
    ELSE units_loop(raw, header.val, header.val.hash_table_size, <<>>, header.parsed)

DatabaseSubSection_decode(raw) ==
    subsection_after_header(raw, DatabaseSubSectionHeader_decode(raw))

RECURSIVE database_loop(_, _, _)

\* Database::decode, lines 209-212: a sub-section was decoded
database_next(s, index, subsections, subsection) ==
    IF subsection.kind # "ok" THEN subsection
    ELSE database_loop(s, index + subsection.parsed, Append(subsections, subsection.val))

\* Database::decode, lines 201-219: the loop while s[index] is 0xFE
database_loop(s, index, subsections) ==
    IF index >= Len(s) THEN RdbErr
    ELSE IF s[index + 1] # 254 THEN RdbOk(subsections, index)
    ELSE database_next(s, index, subsections,
                       DatabaseSubSection_decode(SliceFrom(s, index)))

Database_decode(s) == database_loop(s, 0, <<>>)

S_REDIS == <<"R","E","D","I","S">>

\* Header::decode on the 9 bytes split off the input
Header_decode(s) ==
    IF Len(s) # 9 THEN RdbErr
    ELSE IF ~str_from_utf8(SubSeq(s, 1, 5)).some \/ ~str_from_utf8(SubSeq(s, 6, 9)).some
         THEN RdbErr
    ELSE IF to_uppercase(str_from_utf8(SubSeq(s, 1, 5)).val) # S_REDIS THEN RdbErr
    ELSE RdbOk([magic_string |-> str_from_utf8(SubSeq(s, 1, 5)).val,
                version |-> str_from_utf8(SubSeq(s, 6, 9)).val], 9)

\* RdbFile::decode, lines 72-81: Database::decode(s).unwrap()
file_of(header, metadata, database) ==
    IF database.kind # "ok" THEN RdbPanic
    ELSE RdbOk([header |-> header.val, metadata |-> metadata.val, db |-> database.val],
               9 + metadata.parsed + database.parsed)

\* RdbFile::decode, lines 68-72: the metadata section was decoded
file_after_metadata(s, header, metadata) ==
    IF metadata.kind # "ok" THEN metadata
    ELSE file_of(header, metadata, Database_decode(SliceFrom(s, metadata.parsed)))

\* RdbFile::decode, lines 66-68: the header was decoded
file_after_header(s, header) ==
    IF header.kind # "ok" THEN header
    ELSE file_after_metadata(s, header, MetadataSection_decode(s))

\* RdbFile::decode: split_at(9) panics on a shorter input
RdbFile_decode(input_bytes) ==
    IF Len(input_bytes) < 9 THEN RdbPanic
    ELSE file_after_header(SliceFrom(input_bytes, 9),
                           Header_decode(SubSeq(input_bytes, 1, 9)))

----------------------------------------------------------------------------
(* Startup from the bytes of the RDB file *)

\* a variant of deadline_from_unix that takes the Unix time itself for the
\* deadline
deadline_as_unix_time(timestamp, instantNow) == timestamp

\* Expiry::get_expiry_deadline for Expiry::Deadline: a Unix time in ms
\* becomes now plus what is left until then, or now when it is past
deadline_from_unix(timestamp, instantNow) ==
    IF timestamp >= unix_now_millis(instantNow)
    THEN instantNow + (timestamp - unix_now_millis(instantNow))
    ELSE instantNow

\* KeyValueDataUnit::to_data_unit
to_data_unit(unit, instantNow, id) ==
    DataUnit(unit.value,
             IF unit.expiry.some THEN deadline_from_unix(unit.expiry.val, instantNow)
             ELSE NoDeadline,
             id)

\* the records of every sub-section, in the order of the file
RECURSIVE all_units(_)
all_units(subsections) ==
    IF subsections = <<>> THEN <<>>
    ELSE Head(subsections).key_value_data_units \o all_units(Tail(subsections))

\* Database::to_dashmap: the inserts into the map, in order
inserts_of(units, instantNow) ==
    [i \in 1..Len(units) |->
        [key |-> units[i].key, unit |-> to_data_unit(units[i], instantNow, i)]]

to_dashmap(subsections, instantNow) == inserts_of(all_units(subsections), instantNow)

\* load_data_from_dbfile: fs::read fails when the file is absent
load_data_from_dbfile(file) ==
    IF file.some THEN RdbFile_decode(file.val) ELSE RdbErr

\* the bytes of the parts of a file
B_header == <<82, 69, 68, 73, 83, 48, 48, 49, 49>>
B_bad_magic == <<82, 69, 68, 73, 88, 48, 48, 49, 49>>
B_metadata == <<250>> \o Prefixed(B_ab) \o Prefixed(<<55>>)
B_k == <<107>>
B_j == <<106>>

\* n in width bytes, least significant first
RECURSIVE LeBytes(_, _)
LeBytes(n, width) ==
    IF width = 0 THEN <<>> ELSE <<n % 256>> \o LeBytes(n \div 256, width - 1)

\* a record of the file: the expiry is "none", "ms" or "secs" with the
\* Unix time at
Rec(expiry, at, k, v) == [expiry |-> expiry, at |-> at, key |-> k, value |-> v]
RecBytes(rec) ==
    (CASE rec.expiry = "ms" -> <<252>> \o LeBytes(rec.at, 8)
       [] rec.expiry = "secs" -> <<253>> \o LeBytes(rec.at, 4)
       [] OTHER -> <<>>)
    \o <<0>> \o Prefixed(rec.key) \o Prefixed(rec.value)

\* a sub-database: index, the advisory size of the expiry table, records
SubDb(index, expiry_size, records) ==
    [index |-> index, expiry_size |-> expiry_size, records |-> records]
SubDbBytes(sub) ==
    <<254, sub.index, 251, Len(sub.records), sub.expiry_size>>
    \o Join([i \in 1..Len(sub.records) |-> RecBytes(sub.records[i])])

DatabaseBytes(subs) == Join([i \in 1..Len(subs) |-> SubDbBytes(subs[i])])
FileBytes(subs) == B_header \o B_metadata \o DatabaseBytes(subs) \o <<255>>

R_k_ms == Rec("ms", BootUnixMillis + 1, B_k, <<111>>)
R_k_past == Rec("secs", 1, B_k, <<111>>)
R_j == Rec("none", 0, B_j, <<113>>)
R_j_secs == Rec("secs", 501, B_j, <<97>>)

\* well-formed databases: one and two sub-databases, expiry table sizes
\* that differ from the number of records with an expiry, a key that two
\* sub-databases hold, an empty sub-database
GoodDatabases ==
    { <<SubDb(0, 1, <<R_k_ms, R_j>>)>>,
      <<SubDb(0, 0, <<R_k_past, R_j>>)>>,
      <<SubDb(0, 2, <<R_j>>), SubDb(1, 0, <<R_k_ms>>)>>,
      <<SubDb(0, 0, <<R_j>>), SubDb(1, 1, <<R_j_secs>>)>>,
      <<SubDb(0, 0, <<>>)>> }

\* malformed files: a wrong magic, a metadata section cut off, a record
\* cut off, no 0xFB after the index, a value type other than string, a
\* file shorter than its header
MalformedFiles ==
    { B_bad_magic \o B_metadata \o DatabaseBytes(<<SubDb(0, 0, <<R_j>>)>>) \o <<255>>,
      B_header \o <<250, 2, 97>>,
      B_header \o B_metadata \o <<254, 0, 251, 1, 0, 0, 1>>,
      B_header \o B_metadata \o <<254, 0, 0, 1, 0>> \o RecBytes(R_j) \o <<255>>,
      B_header \o B_metadata \o <<254, 0, 251, 1, 0, 1, 1, 106, 1, 113, 255>>,
      <<82, 69, 68, 73, 83>> }

\* files with the byte 0xC3 where a length is read: the key and the value
\* of a metadata entry, the value of redis-bits, the index and the two
\* sizes of a sub-database, the key and the value of a record
LzfFiles ==
    { B_header \o <<250, 195, 1, 1, 97>> \o <<254, 0, 251, 0, 0, 255>>,
      B_header \o <<250>> \o Prefixed(B_ab) \o <<195, 1, 1, 97>> \o <<254, 0, 251, 0, 0, 255>>,
      B_header \o <<250>> \o Prefixed(B_redis_bits) \o <<195, 1, 1, 97>>
          \o DatabaseBytes(<<SubDb(0, 0, <<R_j>>)>>) \o <<255>>,
      B_header \o B_metadata \o <<254, 195, 251, 0, 0, 255>>,
      B_header \o B_metadata \o <<254, 0, 251, 195, 0, 255>>,
      B_header \o B_metadata \o <<254, 0, 251, 0, 195, 255>>,
      B_header \o B_metadata \o <<254, 0, 251, 1, 0, 0, 195, 1, 1, 97, 1, 113, 255>>,
      B_header \o B_metadata \o <<254, 0, 251, 1, 0, 0, 1, 106, 195, 1, 1, 97, 255>> }

\* the file at <dir>/<dbfilename>: None when there is no file
StartupFiles ==
    {None}
    \cup { Some(FileBytes(subs)) : subs \in GoodDatabases }
    \cup { Some(bytes) : bytes \in MalformedFiles \cup LzfFiles }

StartupRequests ==
    { <<BulkString(S_GET), BulkString(K)>>, <<BulkString(S_GET), BulkString(J)>> }

InitStartup ==
    /\ StoreAtRest
    /\ wstate = [w \in Workers |-> "none"]
    /\ serving = [w \in Workers |-> 0]
    /\ channel = <<>>
    /\ listener = "unbound"
    /\ conn = [c \in Conns |-> "none"]
    /\ client_closed = [c \in Conns |-> FALSE]
    /\ sent = [c \in Conns |-> <<>>]
    /\ taken = [c \in Conns |-> 0]
    /\ decoded = [c \in Conns |-> 0]
    /\ replies = [c \in Conns |-> <<>>]
    /\ ran = [c \in Conns |-> <<>>]
    /\ CodecInit
    /\ cli_args = [threads |-> NumWorkers, role |-> "master"]
    /\ rdb_file = None
    /\ main_pc = 1
    /\ dash_map = <<>>
    /\ config = None
    /\ hs = "none"
    /\ master_in = <<>>
    /\ master_out = <<>>
    /\ master_read = <<>>
    /\ raw_data \in StartupFiles
    /\ rdb_result = None
    /\ StreamInit

\* DataStore::init, line 109, on what load_data_from_dbfile returned: a
\* panic ends the process, an Err is replaced by an empty map
FileRead(outcome) ==
    /\ rdb_result' = Some(outcome)
    /\ IF outcome.kind = "panic"
       THEN /\ main_pc' = 0
            /\ UNCHANGED rdb_file
       ELSE /\ rdb_file' = IF outcome.kind = "ok"
                           THEN Some(to_dashmap(outcome.val.db, now))
                           ELSE None
            /\ UNCHANGED main_pc

\* load_data_from_dbfile: the file is read and decoded
ReadFile ==
    /\ MainAt("init_db")
    /\ rdb_result = None
    /\ FileRead(load_data_from_dbfile(raw_data))
    /\ UNCHANGED <<cli_args, dash_map, config, handshakeVars, raw_data>>
    /\ UNCHANGED <<storeVars, workerVars, historyVars, serverVars, codecVars, streamVars>>

NextStartup ==
    \/ Tick
    \/ ReadFile
    \/ (rdb_result # None /\ LoadEntry)
    \/ (rdb_result # None /\ InitDb)
    \/ NewPool
    \/ SubmitHandshake
    \/ Bind
    \/ \E c \in MainConns : Accept(c)
    \/ \E w \in Workers : TakeJob(w)
    \/ \E c \in MainConns : \E items \in StartupRequests : ClientSend(c, items)
    \/ \E c \in MainConns : ClientClose(c)
    \/ \E w \in Workers : HandleRead(w)
    \/ \E w \in Workers : HandleEof(w)

SpecStartup == InitStartup /\ [][NextStartup]_vars

\* the outcome of the load is known
Loaded == rdb_result # None
FileIn(files) == raw_data.some /\ raw_data.val \in files

\* C23: a file with the LZF length byte 0xC3 in any of the places where a
\* length is read (metadata key or value, database index or sizes, record
\* key or value) is rejected: the decoder stops on the unimplemented
\* encoding and never gives a decoded file
C23_LzfRejected ==
    (Loaded /\ FileIn(LzfFiles)) => rdb_result.val.kind = "panic"

\* the sub-databases of the well-formed file the server started on
FileSubs == CHOOSE subs \in GoodDatabases : FileBytes(subs) = raw_data.val

\* the records of sub-databases, in the order of the file
RecordsOf(subs) == Join([i \in 1..Len(subs) |-> subs[i].records])

\* the string a length-prefixed field of the file holds
FieldString(bytes) == [i \in 1..Len(bytes) |-> char_of(bytes[i])]

\* the Unix time in ms a record expires at
ExpiresAt(rec) == IF rec.expiry = "secs" THEN rec.at * MillisPerSec ELSE rec.at

\* the deadline stands for the expiry of the record: there is none without
\* an expiry prefix, else it is the instant at which the wall clock reads
\* the Unix time, or an instant that has passed when the Unix time was
\* already past at load
DeadlineStandsFor(deadline, rec) ==
    IF rec.expiry = "none" THEN deadline = NoDeadline
    ELSE /\ deadline # NoDeadline
         /\ \/ unix_now_millis(deadline) = ExpiresAt(rec)
            \/ (ExpiresAt(rec) < unix_now_millis(deadline) /\ deadline <= now)

\* the entry the map holds is the record
EntryIs(k, unit, rec) ==
    /\ k = FieldString(rec.key)
    /\ unit.value = FieldString(rec.value)
    /\ DeadlineStandsFor(unit.expiry_deadline, rec)

\* record i is the last of records with its key
IsLastOfKey(records, i) ==
    \A later \in (i + 1)..Len(records) : records[later].key # records[i].key

\* the offset of sub-database i in the database section
RECURSIVE SubOffset(_, _)
SubOffset(subs, i) ==
    IF i = 1 THEN 0 ELSE SubOffset(subs, i - 1) + Len(SubDbBytes(subs[i - 1]))

\* every sub-section is decoded with its declared number of records and
\* the count of bytes it reports is its encoded length
SubSectionsConsumed(subs, section) ==
    \A i \in 1..Len(subs) :
        /\ DatabaseSubSection_decode(SliceFrom(section, SubOffset(subs, i))).parsed
           = Len(SubDbBytes(subs[i]))
        /\ Len(rdb_result.val.val.db[i].key_value_data_units) = Len(subs[i].records)

\* a GET of a key loaded without an expiry was answered with its value
GetRepliesLoaded(records) ==
    \A c \in MainConns : \A i \in 1..Len(replies[c]) : \A r \in 1..Len(records) :
        (/\ sent[c][replies[c][i].to]
            = <<BulkString(S_GET), BulkString(FieldString(records[r].key))>>
         /\ IsLastOfKey(records, r)
         /\ records[r].expiry = "none")
        => replies[c][i].msg = BulkString(FieldString(records[r].value))

\* the map was built by one insert per record, in the order of the file,
\* and the store holds the last record of every key
LastRecordsHeld(records) ==
    /\ Len(dash_map) = Len(records)
    /\ \A i \in 1..Len(records) : EntryIs(dash_map[i].key, dash_map[i].unit, records[i])
    /\ \A k \in DOMAIN db : \E i \in 1..Len(records) :
          IsLastOfKey(records, i) /\ EntryIs(k, db[k], records[i])
    /\ \A i \in 1..Len(records) :
          \/ FieldString(records[i].key) \in DOMAIN db
          \/ \E j \in 1..Len(records) :
                /\ records[j].key = records[i].key
                /\ IsLastOfKey(records, j)
                /\ records[j].expiry # "none"

\* every record of the file is an entry of the store, unless it has an
\* expiry
AllRecordsHeld(records) ==
    \A i \in 1..Len(records) :
        \/ /\ FieldString(records[i].key) \in DOMAIN db
           /\ EntryIs(FieldString(records[i].key), db[FieldString(records[i].key)],
                      records[i])
        \/ records[i].expiry # "none"

LoadedAs(subs) ==
    /\ rdb_result.val.kind = "ok"
    /\ LastRecordsHeld(RecordsOf(subs))
    /\ SubSectionsConsumed(subs, DatabaseBytes(subs) \o <<255>>)
    /\ GetRepliesLoaded(RecordsOf(subs))

\* the store was published from a well-formed file
LoadedGood == Loaded /\ rdb_file.some /\ config # None

\* C24 (as the code has it): after the load of a well-formed file the map
\* was built by one insert per record, in the order of the file, each with
\* the decoded value and the deadline that stands for its expiry, so the
\* store holds one entry per key, that of the last record with the key;
\* every sub-section gave its N records whatever M and consumed its encoded
\* length; a GET of a key loaded without expiry replies its value
C24_LoadedLastRecordWins ==
    (LoadedGood /\ FileIn({FileBytes(subs) : subs \in GoodDatabases}))
        => LoadedAs(FileSubs)

\* C24 as stated: the store holds one entry per record of the file
C24_OneEntryPerRecord ==
    (LoadedGood /\ FileIn({FileBytes(subs) : subs \in GoodDatabases}))
        => AllRecordsHeld(RecordsOf(FileSubs))

\* a file with two sub-databases was loaded and a GET of the key it holds
\* without expiry has been answered
C24_Witness ==
    /\ LoadedGood
    /\ Len(rdb_result.val.val.db) = 2
    /\ rdb_result.val.val.db[1].header.expiry_hash_table_size = 2
    /\ DOMAIN db = {K, J}
    /\ \E c \in MainConns : \E i \in 1..Len(replies[c]) :
          /\ sent[c][replies[c][i].to] = <<BulkString(S_GET), BulkString(J)>>
          /\ replies[c][i].msg = BulkString(<<"q">>)

\* C25: with a malformed file at <dir>/<dbfilename> (magic other than
\* REDIS, a section cut off, no 0xFB marker, a value type other than
\* string, fewer bytes than the header) the load ends the process: no
\* store is published, the listener is never bound and no connection is
\* accepted; without a file the server starts with an empty store
C25_MalformedAborts ==
    /\ (Loaded /\ FileIn(MalformedFiles)) =>
          /\ rdb_result.val.kind = "panic"
          /\ main_pc = 0
          /\ config = None
          /\ listener = "unbound"
          /\ \A c \in MainConns : conn[c] = "none"
    /\ (Loaded /\ raw_data = None) =>
          /\ main_pc # 0
          /\ rdb_file = None
          /\ config # None => db = <<>>

----------------------------------------------------------------------------
(* KEYS, PSYNC and CONFIG on a running server *)

KA == <<"k","a">>
S_star == <<"*">>
S_question == <<"?">>
S_minus_one == <<"-","1">>
S_Dir == <<"D","i","r">>
S_get == <<"g","e","t">>
S_DBFILENAME == <<"D","B","F","I","L","E","N","A","M","E">>
S_DbFileName == <<"D","b","F","i","l","e","N","a","m","e">>
S_FOO == <<"F","O","O">>

\* what the file held: three keys without expiry, two of them with the
\* prefix k
AdminEntries ==
    <<[key |-> K, unit |-> DataUnit(<<"o">>, NoDeadline, 1)],
      [key |-> J, unit |-> DataUnit(<<"q">>, NoDeadline, 2)],
      [key |-> KA, unit |-> DataUnit(<<"a">>, NoDeadline, 3)]>>

KeysPrefixes == {<<>>, K, J, KA, <<"x">>}
KeysRequests == { <<BulkString(S_KEYS), BulkString(p \o S_star)>> : p \in KeysPrefixes }

PsyncRequests ==
    { <<BulkString(S_PSYNC), BulkString(S_question), BulkString(S_minus_one)>>,
      <<BulkString(S_PSYNC), BulkString(S_question)>>,
      <<BulkString(S_PSYNC)>> }

ConfigNames == {S_dir, S_DIR, S_Dir, S_dbfilename, S_DBFILENAME, S_DbFileName}
ConfigGetRequests ==
    { <<BulkString(S_CONFIG), BulkString(sub), BulkString(name)>> :
        sub \in {S_GET, S_get}, name \in ConfigNames }

\* CONFIG SET, REWRITE, RESETSTAT and a subcommand the server does not know
ConfigRejectedRequests ==
    { <<BulkString(S_CONFIG), BulkString(S_SET), BulkString(S_dir), BulkString(<<"x">>)>>,
      <<BulkString(S_CONFIG), BulkString(S_REWRITE)>>,
      <<BulkString(S_CONFIG), BulkString(S_RESETSTAT)>>,
      <<BulkString(S_CONFIG), BulkString(S_FOO)>> }

\* requests the client sends to the running server
MaxAdminSends == 2

AdminRequests ==
    KeysRequests \cup PsyncRequests \cup ConfigGetRequests \cup ConfigRejectedRequests

InitAdmin ==
    /\ now = 0
    /\ db = MapOf(AdminEntries)
    /\ writes = LoadLog(AdminEntries)
    /\ pc = [w \in Workers |-> "recv"]
    /\ command = [w \in Workers |-> None]
    /\ key = [w \in Workers |-> None]
    /\ value = [w \in Workers |-> None]
    /\ checked_at = [w \in Workers |-> 0]
    /\ found = [w \in Workers |-> None]
    /\ response = [w \in Workers |-> None]
    /\ count = 0
    /\ other_set = [w \in Workers |-> FALSE]
    /\ other_remove = [w \in Workers |-> FALSE]
    /\ last_ok = [w \in Workers |-> 0]
    /\ wrote = [w \in Workers |-> 0]
    /\ expired_ids = {}
    /\ ServerInit
    /\ cli_args = [threads |-> NumWorkers, role |-> "master"]
    /\ rdb_file = Some(AdminEntries)
    /\ main_pc = Len(MainSteps)
    /\ dash_map = AdminEntries
    /\ config = Some(DbConfig_new(db_dir, db_filename, None))
    /\ hs = "none"
    /\ master_in = <<>>
    /\ master_out = <<>>
    /\ master_read = <<>>
    /\ CodecInit
    /\ RdbInit
    /\ StreamInit

NextAdmin ==
    \/ \E c \in MainConns : Accept(c)
    \/ \E w \in Workers : TakeJob(w)
    \/ \E c \in MainConns : \E items \in AdminRequests :
          SentTotal(MainConns) < MaxAdminSends /\ ClientSend(c, items)
    \/ \E c \in MainConns : ClientClose(c)
    \/ \E w \in Workers : HandleRead(w)
    \/ \E w \in Workers : HandleEof(w)

SpecAdmin == InitAdmin /\ [][NextAdmin]_vars

\* the request that reply i on connection c answers
AnsweredRequest(c, i) == sent[c][replies[c][i].to]

\* s starts with p
IsPrefix(p, s) == Len(p) <= Len(s) /\ SubSeq(s, 1, Len(p)) = p

\* the message is an array of bulk strings, one for each of the keys
IsArrayOfKeys(m, keys) ==
    /\ m.type = "Array"
    /\ Len(m.data) = Cardinality(keys)
    /\ {m.data[x] : x \in 1..Len(m.data)} = {BulkString(k) : k \in keys}

\* C26: the reply to KEYS p* is the array of exactly the keys of the store
\* that start with p, and the reply to KEYS * is the array of every key
C26_KeysPrefix ==
    \A c \in MainConns : \A i \in 1..Len(replies[c]) : \A p \in KeysPrefixes :
        AnsweredRequest(c, i) = <<BulkString(S_KEYS), BulkString(p \o S_star)>>
        => IsArrayOfKeys(replies[c][i].msg, {k \in DOMAIN db : IsPrefix(p, k)})

\* C27: the reply to PSYNC with two bulk-string arguments is the simple
\* string FULLRESYNC <replid> <offset>, and the reply to PSYNC with another
\* number of arguments is the wrong-number-of-arguments error
C27_PsyncFullResync ==
    \A c \in MainConns : \A i \in 1..Len(replies[c]) :
        (AnsweredRequest(c, i)[1] = BulkString(S_PSYNC))
        => IF Len(AnsweredRequest(c, i)) = 3
           THEN /\ replies[c][i].msg.type = "SimpleString"
                /\ IsPrefix(S_FULLRESYNC \o <<" ">>, replies[c][i].msg.data)
           ELSE replies[c][i].msg = arg_count_error

\* the name and the value CONFIG GET replies for a parameter name
ConfigPair(name) ==
    IF to_uppercase(name) = S_DIR
    THEN <<BulkString(S_dir), BulkString(db_dir)>>
    ELSE <<BulkString(S_dbfilename), BulkString(db_filename)>>

\* C28: the reply to CONFIG GET with dir or dbfilename, subcommand and
\* name in any letter case, is the array of the lowercase name and the
\* configured value
C28_ConfigGetAnyCase ==
    \A c \in MainConns : \A i \in 1..Len(replies[c]) :
        AnsweredRequest(c, i) \in ConfigGetRequests
        => replies[c][i].msg = Array(ConfigPair(AnsweredRequest(c, i)[3].data))

\* C29: a CONFIG SET, REWRITE, RESETSTAT or unknown subcommand that the
\* server has read is answered with an error, the store and the
\* configuration are as before, and the connection stays open for the
\* next request until the client closes it
C29_ConfigRejected ==
    \A c \in MainConns :
        (taken[c] >= 1 /\ sent[c][1] \in ConfigRejectedRequests)
        => /\ replies[c] # <<>>
           /\ replies[c][1].to = 1
           /\ replies[c][1].msg.type = "Error"
           /\ db = MapOf(AdminEntries)
           /\ config = Some(DbConfig_new(db_dir, db_filename, None))
           /\ conn[c] = "closed" => client_closed[c]
           /\ \A w \in Workers : wstate[w] # "dead"

----------------------------------------------------------------------------
(* The gates of SET on an expired entry *)

\* C31: a SET NX that found the key in the map with a deadline that had
\* passed makes its write and replies OK; a SET XX that found such an entry
\* replies an Error, makes no write, and unless another worker set the key
\* in the meantime the map has no entry for the key
C31_ExpiredIsAbsentForGates ==
    \A w \in Workers :
        (pc[w] = "write" /\ (IsNX(w) \/ IsXX(w)) /\ ObservedExpired(w)) =>
            IF IsNX(w)
            THEN WroteOk(w)
            ELSE /\ response[w].val.type = "Error"
                 /\ wrote[w] = 0
                 /\ ~other_set[w] => key[w].val \notin DOMAIN db

\* a SET NX has found an expired entry, written its value and replied OK
\* while a SET XX that found the same expired entry has replied an Error
C31_Witness ==
    /\ \E w \in Workers :
          /\ pc[w] = "write" /\ IsNX(w) /\ ObservedExpired(w)
          /\ response[w] = Some(SimpleString(S_OK))
          /\ K \in DOMAIN db /\ db[K].value = <<"a">>
    /\ \E u \in Workers :
          /\ pc[u] = "write" /\ IsXX(u) /\ ObservedExpired(u)
          /\ response[u].val.type = "Error"

----------------------------------------------------------------------------
(* SET with an absolute expiry: EXAT and PXAT *)

\* Unix times before and after the start of the server, in s and in ms
Digits_501 == <<"5","0","1">>
Digits_500001 == <<"5","0","0","0","0","1">>

AbsoluteRequests ==
    { <<BulkString(S_GET), BulkString(K)>>,
      SetRequest(<<"a">>, Timed(S_EXAT, Digits_1)),
      SetRequest(<<"a">>, Timed(S_PXAT, Digits_1)),
      SetRequest(<<"b">>, Timed(S_EXAT, Digits_501)),
      SetRequest(<<"b">>, Timed(S_PXAT, Digits_500001)) }

NextAbsolute ==
    \/ Tick
    \/ \E w \in OptionWorkers : \E items \in AbsoluteRequests : ReceiveRequest(w, items)
    \/ \E w \in OptionWorkers : GetRead(w)
    \/ \E w \in OptionWorkers : GetCheck(w)
    \/ \E w \in OptionWorkers : GetRemove(w)
    \/ \E w \in OptionWorkers : GetReply(w)
    \/ \E w \in OptionWorkers : SetExecute(w)
    \/ \E w \in OptionWorkers : WriteResponse(w)

SpecAbsolute == StoreInit /\ [][NextAbsolute]_vars

\* worker w runs SET k v EXAT s or SET k v PXAT ms
IsAbsolute(w) ==
    /\ InSet(w)
    /\ Len(SetOptions(w)) = 2
    /\ SetOptions(w)[1] \in {BulkString(S_EXAT), BulkString(S_PXAT)}

\* the Unix time in ms the SET of worker w gives
AbsoluteMillis(w) ==
    IF SetOptions(w)[1] = BulkString(S_EXAT)
    THEN u64_from_str_radix(SetOptions(w)[2].data) * MillisPerSec
    ELSE u64_from_str_radix(SetOptions(w)[2].data)

\* the entry the SET wrote at instant t is the one an absolute expiry asks
\* for: expired at once when the Unix time was not after t, else with the
\* deadline at which the wall clock reads the Unix time
AbsoluteDeadline(unit, unix_millis, t) ==
    /\ unit.expiry_deadline # NoDeadline
    /\ IF unix_millis <= unix_now_millis(t)
       THEN unit.expiry_deadline <= t
       ELSE unix_now_millis(unit.expiry_deadline) = unix_millis

\* C32: a SET with EXAT or PXAT that has run has not aborted its thread,
\* has replied OK and has written an entry that is already expired when
\* the Unix time was in the past, and whose deadline is the instant of that
\* Unix time when it is in the future
C32_AbsoluteExpiry ==
    \A w \in Workers :
        (IsAbsolute(w) /\ pc[w] \in {"write", "dead"}) =>
            /\ pc[w] = "write"
            /\ response[w] = Some(SimpleString(S_OK))
            /\ wrote[w] > 0
            /\ AbsoluteDeadline(writes[wrote[w]].unit, AbsoluteMillis(w), now)

----------------------------------------------------------------------------
(* Two clients issue SET NX on the same key *)

GateRequests ==
    { <<BulkString(S_GET), BulkString(K)>>,
      SetRequest(<<"a">>, Flag(S_NX)),
      SetRequest(<<"b">>, Flag(S_NX)),
      SetRequest(<<"b">>, Flag(S_XX)) }

NextGate ==
    \/ Tick
    \/ \E w \in Workers : \E items \in GateRequests : ReceiveRequest(w, items)
    \/ \E w \in Workers : GetRead(w)
    \/ \E w \in Workers : GetCheck(w)
    \/ \E w \in Workers : GetRemove(w)
    \/ \E w \in Workers : GetReply(w)
    \/ \E w \in Workers : SetExecute(w)
    \/ \E w \in Workers : WriteResponse(w)

SpecGate == StoreInit /\ [][NextGate]_vars

\* worker w has run a SET NX that read the key while the map did not hold
\* it, and its reply is ready
NxOnAbsentDone(w) == pc[w] = "write" /\ IsNX(w) /\ ~value[w].some

\* C33: of two SET NX on an absent key that run at the same time at most
\* one replies OK, and the map holds the value of the one that did
C33_GateAtomic ==
    \A w \in Workers : \A u \in Workers \ {w} :
        (NxOnAbsentDone(w) /\ NxOnAbsentDone(u)) =>
            /\ ~(response[w] = Some(SimpleString(S_OK))
                 /\ response[u] = Some(SimpleString(S_OK)))
            /\ response[w] = Some(SimpleString(S_OK)) =>
                  /\ K \in DOMAIN db
                  /\ db[K].value = as_string(command[w].val.args[2]).val

----------------------------------------------------------------------------
(* A follower whose master is this server *)

\* response.encode(): an Error is -<text>CRLF and the null bulk string is
\* $-1CRLF; the text of an error is one element of the byte string
response_bytes(m) ==
    IF m.type = "Error" THEN <<"-", m.data>> \o CRLF
    ELSE IF m.type = "NullBulkString" THEN <<"$", "-", "1">> \o CRLF
    ELSE encode(m)

\* recieve_message on the master, lines 107-118: the reply to the command
\* is written to the follower; a panic drops the stream and the follower
\* reads zero bytes
MasterWrites(outcome) ==
    master_out' = Append(master_out,
                         IF outcome.kind = "panic" THEN <<>>
                         ELSE response_bytes(outcome.response))

\* the master reads the command the follower wrote and runs it through
\* process_message
MasterServes ==
    /\ Len(master_read) + Len(master_out) < Len(master_in)
    /\ hs = "wait"
    /\ \E overflow_checks \in BOOLEAN :
         MasterWrites(raw_outcome(master_in[Len(master_in)], <<>>, now,
                                  overflow_checks, 1))
    /\ UNCHANGED <<cli_args, rdb_file, main_pc, dash_map, config, hs, master_in,
                   master_read>>
    /\ UNCHANGED <<serverVars, storeVars, workerVars, historyVars, codecVars, rdbVars, streamVars>>

InitFollow == InitMain /\ cli_args.role = "slave"

NextFollow ==
    \/ LoadEntry
    \/ InitDb
    \/ NewPool
    \/ SubmitHandshake
    \/ Bind
    \/ \E w \in Workers : TakeHandshake(w)
    \/ \E w \in Workers : HsConnect(w)
    \/ \E w \in Workers : HsSend(w)
    \/ MasterServes
    \/ \E w \in Workers : HsRead(w)
    \/ \E c \in MainConns : Accept(c)
    \/ \E w \in Workers : TakeJob(w)
    \/ \E c \in MainConns : \E items \in MainRequests : ClientSend(c, items)
    \/ \E c \in MainConns : ClientClose(c)
    \/ \E w \in Workers : HandleRead(w)
    \/ \E w \in Workers : HandleEof(w)

SpecFollow == InitFollow /\ [][NextFollow]_vars

----------------------------------------------------------------------------
(* Several requests in one read *)

\* everything client c has written is complete PING requests
OnlyPings(c) == \A i \in 1..Len(sent[c]) : sent[c][i] = PingBytes

\* C35: when the server has read everything a client wrote and all of it
\* is complete requests, it has written one reply per request, each PONG
C35_PipelinedAllAnswered ==
    \A c \in Conns :
        (OnlyPings(c) /\ taken[c] = Len(sent[c])) =>
            /\ Len(replies[c]) = Len(sent[c])
            /\ \A i \in 1..Len(replies[c]) : replies[c][i].msg = SimpleString(S_PONG)


\* ---------------------------------------------------------------------
\* read_message at the level of single reads: one connection whose client
\* writes one request, in one or two segments, and waits for the reply
\* ---------------------------------------------------------------------

\* read_message, line 65
BUFFER_SIZE == 1024

\* the longest first segment of a request that is written in two segments
MaxCut == 13

\* an argument of n bytes
Fill(n) == [i \in 1..n |-> "x"]

\* an ECHO request whose argument has n bytes
EchoBytes(n) == encode(Array(<<BulkString(S_ECHO), BulkString(Fill(n))>>))

\* the requests of the read-level client: a PING, and ECHO requests of
\* exactly BUFFER_SIZE bytes, of one byte more, and of twice BUFFER_SIZE
StreamRequests ==
    { PingBytes, EchoBytes(BUFFER_SIZE - 23), EchoBytes(BUFFER_SIZE - 22),
      EchoBytes(2 * BUFFER_SIZE - 23) }

\* the ways the client's writes of a request reach the server: at once, or
\* a first segment of at most MaxCut bytes and then the rest
Segmentations(req) ==
    { <<req>> } \cup
    { <<SubSeq(req, 1, i), SubSeq(req, i + 1, Len(req))>> :
        i \in 1..(IF Len(req) - 1 < MaxCut THEN Len(req) - 1 ELSE MaxCut) }

InitStream ==
    /\ ServerAtRest
    /\ CodecInit
    /\ RdbInit
    /\ request \in { Some(req) : req \in StreamRequests }
    /\ in_flight \in Segmentations(request.val)
    /\ socket = <<>>
    /\ peer_closed = FALSE
    /\ collected = <<>>
    /\ read_pc = "read"
    /\ written = <<>>

\* what the read-level actions leave alone
outsideStream == <<storeVars, workerVars, historyVars, serverVars, codecVars,
                   mainVars, rdbVars>>

\* the next segment the client wrote reaches the server's socket
Arrive ==
    /\ in_flight # <<>>
    /\ socket' = socket \o Head(in_flight)
    /\ in_flight' = Tail(in_flight)
    /\ UNCHANGED <<request, peer_closed, collected, read_pc, written, outsideStream>>

\* the client closes its end after everything it wrote has arrived
ClientCloses ==
    /\ in_flight = <<>>
    /\ ~peer_closed
    /\ peer_closed' = TRUE
    /\ UNCHANGED <<request, in_flight, socket, collected, read_pc, written, outsideStream>>

\* stream.read blocks while the socket is empty and the peer has not closed
ReadBlocks == socket = <<>> /\ ~peer_closed

\* read_message, lines 69-78, one turn of the loop: read returns at most
\* BUFFER_SIZE of the bytes that arrived (none at end of stream), they are
\* appended to data, and the loop ends when fewer than BUFFER_SIZE came
StreamRead ==
    /\ read_pc = "read"
    /\ ~ReadBlocks
    /\ LET n == IF Len(socket) < BUFFER_SIZE THEN Len(socket) ELSE BUFFER_SIZE
       IN  /\ collected' = collected \o SubSeq(socket, 1, n)
           /\ socket' = SubSeq(socket, n + 1, Len(socket))
           /\ read_pc' = IF n < BUFFER_SIZE THEN "process" ELSE "read"
    /\ UNCHANGED <<request, in_flight, peer_closed, written, outsideStream>>

\* recieve_message, lines 85-118, on what read_message returned: return on
\* no bytes, else from_utf8, process_message and write_all of the reply
StreamProcess ==
    /\ read_pc = "process"
    /\ IF collected = <<>>
       THEN /\ read_pc' = "returned"
            /\ UNCHANGED written
       ELSE LET outcome == raw_outcome(collected, <<>>, 0, TRUE, 1)
            IN  IF outcome.kind = "panic"
                THEN /\ read_pc' = "panicked"
                     /\ UNCHANGED written
                ELSE /\ read_pc' = "read"
                     /\ written' = Append(written, outcome.response)
    /\ collected' = <<>>
    /\ UNCHANGED <<request, in_flight, socket, peer_closed, outsideStream>>

NextStream ==
    \/ Arrive
    \/ ClientCloses
    \/ StreamRead
    \/ StreamProcess

SpecStream == InitStream /\ [][NextStream]_vars

\* the reply the server owes for the client's request
ExpectedReply == raw_outcome(request.val, <<>>, 0, TRUE, 1).response

\* the server waits in read for bytes of a client that has sent its whole
\* request and waits for the reply
WaitsForClient ==
    /\ read_pc = "read"
    /\ ReadBlocks
    /\ in_flight = <<>>

\* C36: a server that waits for more bytes of a client whose request has
\* arrived whole has answered that request, also when the request is a
\* multiple of BUFFER_SIZE long; and what is handed to the decoder is the
\* whole request, also when it arrived in two segments
C36_AnsweredWithoutWaiting ==
    /\ WaitsForClient => written = <<ExpectedReply>>
    /\ (read_pc = "process" /\ collected # <<>>) => collected = request.val
    /\ read_pc # "panicked"


\* ---------------------------------------------------------------------
\* The pool under fair scheduling: connections that end and the jobs
\* queued behind them
\* ---------------------------------------------------------------------

\* the number of requests the clients of the fair pool send
MaxPoolSends == 2

\* recieve_message, lines 99-105: stream.read fails, the match arm logs the
\* error and breaks the connection loop, the job returns and the worker
\* goes back to recv()
HandleIoError(w) ==
    /\ wstate[w] = "busy"
    /\ serving[w] \in Conns
    /\ wstate' = [wstate EXCEPT ![w] = "idle"]
    /\ serving' = [serving EXCEPT ![w] = 0]
    /\ conn' = [conn EXCEPT ![serving[w]] = "closed"]
    /\ UNCHANGED <<channel, listener, client_closed, sent, taken, decoded, replies, ran>>
    /\ UNCHANGED <<db, frozenStore>>

NextPool ==
    \/ \E c \in Conns : Accept(c)
    \/ \E w \in Workers : TakeJob(w)
    \/ \E c \in Conns : \E items \in ServerRequests :
         SentTotal(Conns) < MaxPoolSends /\ ClientSend(c, items)
    \/ \E c \in Conns : ClientClose(c)
    \/ \E w \in Workers : HandleRead(w)
    \/ \E w \in Workers : HandleEof(w)
    \/ \E w \in Workers : HandleIoError(w)

\* HandleRead(w) can be taken: the guard of HandleRead, which is what
\* ENABLED <<HandleRead(w)>>_vars amounts to, since every such step
\* changes taken
CanRead(w) ==
    /\ wstate[w] = "busy"
    /\ serving[w] \in Conns
    /\ taken[serving[w]] < Len(sent[serving[w]])

\* weak fairness of the reads of the worker threads, written out with
\* CanRead for ENABLED
ReadFairness ==
    \/ []<>(\A w \in Workers : ~CanRead(w))
    \/ []<><<\E w \in Workers : HandleRead(w)>>_vars

\* the worker threads are scheduled: a worker blocked in recv() takes a
\* job that is queued, a worker whose stream has bytes or has ended reads;
\* and every client closes its connection in the end
PoolFairness ==
    /\ WF_vars(\E w \in Workers : TakeJob(w) \/ HandleEof(w))
    /\ ReadFairness
    /\ WF_vars(\E c \in Conns : ClientClose(c))

SpecPool == InitServer /\ [][NextPool]_vars /\ PoolFairness

\* C37: a worker whose client has closed goes back to waiting for a job,
\* and every connection queued in the channel is eventually run by a worker
C37_QueuedEventuallyServed ==
    /\ \A w \in Workers :
         (wstate[w] = "busy" /\ client_closed[serving[w]]) ~> (wstate[w] = "idle")
    /\ \A c \in Conns : (conn[c] = "queued") ~> (ran[c] # <<>>)


\* ---------------------------------------------------------------------
\* KEYS and the entries whose deadline has passed
\* ---------------------------------------------------------------------

KeysAll == <<BulkString(S_KEYS), BulkString(S_star)>>

\* KEYS *, GET k, a SET of k that expires after one millisecond and a SET
\* of k that does not expire
KeysTimeRequests ==
    { KeysAll,
      <<BulkString(S_GET), BulkString(K)>>,
      SetRequest(<<"a">>, <<BulkString(S_PX), BulkString(Digits_1)>>),
      SetRequest(<<"b">>, <<>>) }

NextKeys ==
    \/ Tick
    \/ \E c \in MainConns : Accept(c)
    \/ \E w \in Workers : TakeJob(w)
    \/ \E c \in MainConns : \E items \in KeysTimeRequests : ClientSend(c, items)
    \/ \E c \in MainConns : ClientClose(c)
    \/ \E w \in Workers : HandleRead(w)
    \/ \E w \in Workers : HandleEof(w)

SpecKeys == InitServer /\ [][NextKeys]_vars

\* this step writes the reply to a KEYS * request of connection c
KeysReplied(c) ==
    /\ Len(replies'[c]) = Len(replies[c]) + 1
    /\ sent[c][taken[c] + 1] = KeysAll

\* GET of k on this map at this time replies a value
GetRepliesValue(map, k, instantNow) ==
    GetCommand_execute(DataStore_get(map, k, instantNow).found).type = "BulkString"

\* C38: every key that a KEYS reply lists is a key for which GET, at the
\* time of the KEYS, replies a value: no key whose deadline has passed is
\* listed, read or not
C38_KeysOnlyLive ==
    [][\A c \in MainConns :
         KeysReplied(c) =>
             LET listed == replies'[c][Len(replies'[c])].msg
             IN  /\ listed.type = "Array"
                 /\ \A i \in 1..Len(listed.data) :
                        GetRepliesValue(db, listed.data[i].data, now)]_vars


\* ---------------------------------------------------------------------
\* What changes the map
\* ---------------------------------------------------------------------

\* the maps differ at most at key k
SameExcept(m1, m2, k) ==
    /\ (DOMAIN m1) \ {k} = (DOMAIN m2) \ {k}
    /\ \A x \in (DOMAIN m1) \ {k} : m1[x] = m2[x]

\* this step is worker w's accepted SET: it replies OK and k, its own key,
\* holds the entry it wrote
AcceptedSet(w, k) ==
    /\ pc[w] = "get_ret" /\ pc'[w] = "write"
    /\ command[w].val.variant = "Set"
    /\ key[w].val = k
    /\ response'[w].val = SimpleString(S_OK)
    /\ k \in DOMAIN db'
    /\ db'[k] = writes'[Len(writes')].unit

\* this step removes the entry of k, whose deadline has passed
ExpiredRemoved(k) ==
    /\ k \in DOMAIN db
    /\ k \notin DOMAIN db'
    /\ is_expired(db[k], now)

\* C39: a step that changes the map changes one key only, and it is either
\* an accepted SET of that key or the removal of an entry whose deadline
\* has passed; every other step leaves the map as it is
C39_OnlySetAndExpiryChange ==
    [][db' # db =>
         \E k \in (DOMAIN db) \cup (DOMAIN db') :
            /\ SameExcept(db, db', k)
            /\ \/ \E w \in Workers : AcceptedSet(w, k)
               \/ ExpiredRemoved(k)]_vars

====
